---- MODULE Spec2Model ----
(***************************************************************************)
(* notes-sync-linux: the sync engine (core.py: NotesDownloader,            *)
(* SyncEngine) and the orchestration of sync runs and "download missing    *)
(* file" requests by the GUI (qt_gui.py / gui.py, which share the same     *)
(* code for these handlers).                                               *)
(*                                                                         *)
(* Paths are sequences of segments ("a/b" is <<"a","b">>), file contents   *)
(* are drawn from Contents, and Sha256 is an injective map on contents.    *)
(* A network request together with the cancellation polls that directly    *)
(* precede it is one step; the token can be set between any two steps,     *)
(* which covers a token set while the request is in flight.                *)
(***************************************************************************)
EXTENDS Integers, Sequences, FiniteSets, TLC

\* ---------------------------------------------------------------- bounds
MaxFiles == 2
MaxRuns == 2
SizeLimit == 2
MaxDownloads == 3

\* ------------------------------------------------------------- universes
Notes == {"n1", "n2"}
NoteOrder == <<"n1", "n2">>
Runs == 1..MaxRuns
Contents == {"c1", "c2"}
None == "none"

\* Segment order of the strings the paths stand for ("a" < "a/b" < "b").
SegRank(s) == CASE s = "R" -> 0 [] s = "a" -> 1 [] s = "b" -> 2 [] OTHER -> 3

\* The remote folder's own path and the files a listing can report.
RootPath == <<"R">>
Entries == { [path |-> <<"R", "a">>, name |-> "a", size |-> 1],
             [path |-> <<"R", "a", "b">>, name |-> "b", size |-> SizeLimit + 1] }

\* The listings: up to MaxFiles entries, in the order of their paths; an entry
\* may be listed twice.
SeqsUpTo(S, n) == UNION { [1..k -> S] : k \in 0..n }
Listings == { l \in SeqsUpTo(Entries, MaxFiles) :
                \A i \in 1..Len(l) - 1 : Len(l[i].path) <= Len(l[i + 1].path) }

\* What the server of a direct link serves.
DirectContents == {"c1"}

\* Exception messages (str(exc)); every message the code builds is non-empty.
MsgHttp == "HTTP error 500"
MsgCancelled == "Cancelled"
MsgExists == "[Errno 17] File exists"
MsgNotDir == "[Errno 20] Not a directory"
MsgIsDir == "[Errno 21] Is a directory"
MsgNoFile == "File not found in source tree"
MsgNoNote == "Note not found"
MsgNotYandex ==
  "Single-file on-demand download is currently supported only for Yandex folder sources"

\* ---------------------------------------------------------------- hashing
Sha256(c) == "sha256(" \o c \o ")"

\* ------------------------------------------------------------------ paths
IsPrefix(p, q) == Len(p) <= Len(q) /\ SubSeq(q, 1, Len(p)) = p
Parent(p) == SubSeq(p, 1, Len(p) - 1)

RECURSIVE PathLess(_, _)
PathLess(p, q) ==
  IF p = <<>> THEN q # <<>>
  ELSE IF q = <<>> THEN FALSE
  ELSE IF SegRank(Head(p)) # SegRank(Head(q)) THEN SegRank(Head(p)) < SegRank(Head(q))
  ELSE PathLess(Tail(p), Tail(q))

\* The segments of a path with only the empty ones dropped.
SanitizedPathPartsKeepingDots(path) == SelectSeq(path, LAMBDA x : x # "")

\* _sanitized_path_parts: the non-empty segments other than "." and "..".
SanitizedPathParts(path) == SelectSeq(path, LAMBDA x : x \notin {"", ".", ".."})

FreshName == <<"uuid">>

\* The local path that keeps the segments of the folder's own path.
MakeSafeRelativePathKeepingRoot(remote_path, root_path) ==
  LET remote_parts == SanitizedPathParts(remote_path)
  IN IF remote_parts # <<>> THEN remote_parts ELSE FreshName

MakeSafeRelativePath(remote_path, root_path) ==
  LET remote_parts == SanitizedPathParts(remote_path)
      root_parts == SanitizedPathParts(root_path)
      relative == IF Len(remote_parts) >= Len(root_parts)
                     /\ SubSeq(remote_parts, 1, Len(root_parts)) = root_parts
                  THEN SubSeq(remote_parts, Len(root_parts) + 1, Len(remote_parts))
                  ELSE remote_parts
  IN IF relative # <<>> THEN relative
     ELSE IF remote_parts # <<>> THEN <<remote_parts[Len(remote_parts)]>>
     ELSE FreshName

\* A file that earlier listings of the folder reported and that the listings of
\* the runs no longer report.
GoneEntry == [path |-> <<"R", "b">>, name |-> "b", size |-> 1]

LocalPaths == { MakeSafeRelativePath(e.path, RootPath) : e \in Entries \cup {GoneEntry} }
AllPaths == UNION { { SubSeq(p, 1, k) : k \in 0..Len(p) } : p \in LocalPaths }

\* sorted(xs, key=lambda x: x.local_relative_path.lower()): a stable sort.
RECURSIVE InsertByPath(_, _)
InsertByPath(sorted, x) ==
  IF sorted = <<>> THEN <<x>>
  ELSE IF PathLess(x.local_relative_path, Head(sorted).local_relative_path)
       THEN <<x>> \o sorted
       ELSE <<Head(sorted)>> \o InsertByPath(Tail(sorted), x)

RECURSIVE SortByPath(_)
SortByPath(xs) ==
  IF xs = <<>> THEN <<>>
  ELSE InsertByPath(SortByPath(SubSeq(xs, 1, Len(xs) - 1)), xs[Len(xs)])

\* A local variable of the code: value is computed once and In reads it.
With(value, In(_)) == CHOOSE out \in { In(v) : v \in {value} } : TRUE

\* ------------------------------------------------------- the local store
\* A target's source directory is a map from AllPaths to None, "dir" or the
\* content of a file; <<>> is the directory itself (StorageManager.source_dir).
EmptyFs == [p \in AllPaths |-> None]
FsExists(fs, p) == fs[p] # None
IsFile(fs, p) == fs[p] \in Contents

\* Path.mkdir(parents=True, exist_ok=True) of directory d.
MkdirParents(fs, d) ==
  LET blocked == { k \in 0..Len(d) : IsFile(fs, SubSeq(d, 1, k)) }
  IN IF blocked # {}
     THEN [fs |-> fs, err |-> IF Len(d) \in blocked THEN MsgExists ELSE MsgNotDir]
     ELSE [fs |-> [q \in AllPaths |-> IF IsPrefix(q, d) THEN "dir" ELSE fs[q]],
           err |-> None]

\* Path.unlink(missing_ok=True): a directory cannot be unlinked.
Unlink(fs, p) ==
  IF fs[p] = "dir" THEN [fs |-> fs, err |-> MsgIsDir]
  ELSE [fs |-> [fs EXCEPT ![p] = None], err |-> None]

\* The source directory left as it is.
RmtreeKeeps(fs) == fs

\* shutil.rmtree(source_dir, ignore_errors=True)
Rmtree(fs) == EmptyFs

\* _cleanup_empty_directories: the directories below the root, deepest first;
\* one with no entry left in it is removed (so a parent emptied by it goes too).
MaxDepth == CHOOSE d \in { Len(p) : p \in AllPaths } : \A q \in AllPaths : Len(q) <= d
HasChild(fs, d) == \E q \in AllPaths : q # <<>> /\ Parent(q) = d /\ fs[q] # None

RECURSIVE CleanupLevel(_, _)
CleanupLevel(fs, depth) ==
  IF depth = 0 THEN fs
  ELSE With([q \in AllPaths |->
               IF Len(q) = depth /\ fs[q] = "dir" /\ ~HasChild(fs, q) THEN None
               ELSE fs[q]],
            LAMBDA swept : CleanupLevel(swept, depth - 1))

CleanupEmptyDirectories(fs) ==
  IF fs[<<>>] = None THEN fs ELSE CleanupLevel(fs, MaxDepth)

\* --------------------------------------------------------------- records
Status(kind) == [kind |-> kind, n |-> 0, c |-> 0, r |-> 0, f |-> 0, s |-> 0,
                 msg |-> ""]
StatusError(m) == [Status("Error") EXCEPT !.msg = m]
StatusChecking(i, total) == [Status("Checking") EXCEPT !.c = i, !.n = total]
StatusCheckingFolder(done, total) ==
  [Status("Checking folder") EXCEPT !.c = done, !.n = total]

\* NoteItem, with the fields the sync reads or writes.
NewNote(kind) ==
  [is_group |-> FALSE, url |-> kind, sha256 |-> None, source_type |-> None,
   folder_files |-> <<>>, status |-> Status("Never synced"), last_error |-> None]

\* What the GUI's list holds for a target that is not in it (_find_note gives None).
Absent == [NewNote(None) EXCEPT !.status = Status("Deleted")]

SyncedFileItem(remote_path, local_path, sha, size) ==
  [relative_path |-> remote_path, local_relative_path |-> local_path,
   sha256 |-> sha, size_bytes |-> size]

\* temp_path is a temp file (see TempIds) or, for Python's None, NoTempPath.
NoTempPath == <<>>

DownloadedFolderFile(entry, temp, skipped, error) ==
  [remote_path |-> entry.path,
   local_relative_path |-> MakeSafeRelativePath(entry.path, RootPath),
   temp_path |-> IF temp = None THEN NoTempPath ELSE temp, size_bytes |-> entry.size,
   was_skipped |-> skipped, download_error |-> error]

\* ------------------------------------------------- reconciliation engine
\* The temp files: of file k of the listing of target n in run r, <<r, n, k>>; of
\* the "download missing file" worker d of target n, <<0, n, d>>.
TempIds == (Runs \X Notes \X (0..MaxFiles)) \cup ({0} \X Notes \X (1..MaxDownloads))
NoTemp == [t \in TempIds |-> None]

\* SyncEngine._replace_file, the temp file's bytes being data.
ReplaceFile(fs, dest, data) ==
  With(MkdirParents(fs, Parent(dest)), LAMBDA mk :
    IF mk.err # None THEN [fs |-> fs, err |-> mk.err]
    ELSE With(IF FsExists(mk.fs, dest) THEN Unlink(mk.fs, dest)
              ELSE [fs |-> mk.fs, err |-> None],
              LAMBDA ul :
                IF ul.err # None THEN [fs |-> mk.fs, err |-> ul.err]
                ELSE [fs |-> [ul.fs EXCEPT ![dest] = data], err |-> None]))

\* previous_by_path.get(path).sha256 or "": the dict keeps the last item of a path.
PrevSha(previous_items, path) ==
  LET at == { i \in 1..Len(previous_items) :
                previous_items[i].local_relative_path = path }
  IN IF at = {} THEN ""
     ELSE previous_items[CHOOSE i \in at : \A j \in at : j <= i].sha256

\* One iteration of the loop over downloaded_files; acc.err is the exception
\* that ended the loop, if any.
ApplyEntry(acc, file, previous_items) ==
  IF acc.err # None THEN acc
  ELSE With(MkdirParents(acc.fs, Parent(file.local_relative_path)), LAMBDA mk :
    LET dest == file.local_relative_path
        data == acc.tmp[file.temp_path]
        new_hash == Sha256(data)
        has_changes == IF FsExists(mk.fs, dest) THEN Sha256(mk.fs[dest]) # new_hash
                       ELSE TRUE
        rp == ReplaceFile(mk.fs, dest, data)
        kept_hash == IF FsExists(mk.fs, dest) THEN Sha256(mk.fs[dest])
                     ELSE PrevSha(previous_items, dest)
    IN IF mk.err # None THEN [acc EXCEPT !.err = mk.err]
       ELSE IF mk.fs[dest] = "dir" THEN [acc EXCEPT !.fs = mk.fs, !.err = MsgIsDir]
       ELSE IF file.temp_path # NoTempPath
       THEN [acc EXCEPT
               !.fs = IF has_changes THEN rp.fs ELSE mk.fs,
               !.tmp = [@ EXCEPT ![file.temp_path] = None],
               !.changed = IF has_changes THEN @ + 1 ELSE @,
               !.items = Append(@, SyncedFileItem(file.remote_path, dest, new_hash,
                                                  file.size_bytes))]
       ELSE [acc EXCEPT
               !.fs = mk.fs,
               !.skipped = IF file.was_skipped THEN @ + 1 ELSE @,
               !.failed = IF ~file.was_skipped /\ file.download_error # None
                          THEN @ + 1 ELSE @,
               !.items = Append(@, SyncedFileItem(file.remote_path, dest, kept_hash,
                                                  file.size_bytes))])

RECURSIVE ApplyEntries(_, _, _)
ApplyEntries(acc, files, previous_items) ==
  IF files = <<>> THEN acc
  ELSE With(ApplyEntry(acc, Head(files), previous_items),
            LAMBDA done : ApplyEntries(done, Tail(files), previous_items))

\* The loop over previous_items that deletes the files no longer listed.
RECURSIVE RemoveOld(_, _, _)
RemoveOld(acc, previous_items, next_paths) ==
  IF previous_items = <<>> \/ acc.err # None THEN acc
  ELSE LET old == Head(previous_items).local_relative_path
       IN IF old \in next_paths \/ ~FsExists(acc.fs, old)
          THEN RemoveOld(acc, Tail(previous_items), next_paths)
          ELSE With(Unlink(acc.fs, old), LAMBDA ul :
                 IF ul.err # None THEN [acc EXCEPT !.err = ul.err]
                 ELSE With([acc EXCEPT !.fs = ul.fs, !.removed = @ + 1],
                           LAMBDA done :
                             RemoveOld(done, Tail(previous_items), next_paths)))

\* The status texts of _apply_folder_sync, as the f-strings build them.
StatusText(st) ==
  CASE st.kind = "Folder synced" /\ st.n = 0 -> "Folder synced: 0 files"
    [] st.kind = "Folder synced" /\ st.n # 0 ->
         "Folder synced: " \o ToString(st.n) \o " files (" \o ToString(st.c)
         \o " updated, " \o ToString(st.r) \o " removed, " \o ToString(st.f)
         \o " failed, " \o ToString(st.s) \o " skipped)"
    [] st.kind = "Folder no changes" ->
         "Folder no changes: " \o ToString(st.n) \o " files"
    [] st.kind = "Error" -> "Error: " \o st.msg
    [] OTHER -> st.kind

\* The status that reports removals only when something else changed too.
FolderStatusIgnoringRemoved(n, c, r, f, s) ==
  IF n = 0 THEN Status("Folder synced")
  ELSE IF c > 0 \/ f > 0 \/ s > 0
       THEN [Status("Folder synced") EXCEPT !.n = n, !.c = c, !.r = r, !.f = f, !.s = s]
       ELSE [Status("Folder no changes") EXCEPT !.n = n]

FolderStatus(n, c, r, f, s) ==
  IF n = 0 THEN Status("Folder synced")
  ELSE IF c > 0 \/ r > 0 \/ f > 0 \/ s > 0
       THEN [Status("Folder synced") EXCEPT !.n = n, !.c = c, !.r = r, !.f = f, !.s = s]
       ELSE [Status("Folder no changes") EXCEPT !.n = n]

\* SyncEngine._apply_folder_sync on the target's record, its source directory fs,
\* its single-file path and the temp directory. err is the exception it raised.
ApplyFolderSync(note, fs, single, tmp, downloaded_files) ==
  With([fs |-> MkdirParents(fs, <<>>).fs, tmp |-> tmp, items |-> <<>>,
        changed |-> 0, removed |-> 0, failed |-> 0, skipped |-> 0, err |-> None],
       LAMBDA acc0 :
  With(ApplyEntries(acc0, downloaded_files, note.folder_files), LAMBDA acc1 :
  With(RemoveOld(acc1, note.folder_files,
                 { acc1.items[i].local_relative_path : i \in 1..Len(acc1.items) }),
       LAMBDA acc2 :
    LET updated == acc2.changed > 0 \/ acc2.removed > 0 \/ note.source_type # "folder"
    IN IF acc2.err # None
       THEN [acc2 EXCEPT !.items = <<>>]
            @@ [note |-> note, single |-> None, updated |-> 0]
       ELSE [acc2 EXCEPT !.fs = CleanupEmptyDirectories(acc2.fs)]
            @@ [note |-> [note EXCEPT
                            !.source_type = "folder",
                            !.folder_files = SortByPath(acc2.items),
                            !.sha256 = None,
                            !.status = FolderStatus(Len(acc2.items), acc2.changed,
                                                    acc2.removed, acc2.failed,
                                                    acc2.skipped)],
                single |-> None,
                updated |-> IF updated THEN 1 ELSE 0])))

\* ------------------------------------------------------------------ state
VARIABLES
  notes,               \* the GUI's list of NoteItem records (self.notes)
  is_syncing,          \* self.is_syncing
  is_stopping,         \* self.is_stopping
  sync_cancel_event,   \* self.sync_cancel_event: 0 (None) or the run whose Event it is
  ui_queue,            \* self.ui_queue
  inflight_downloads,  \* self.inflight_downloads
  cancel_events,       \* the threading.Event of each run: is it set
  store,               \* sources/<note id>/...: the source directory of each target
  single,              \* pdfs/<file_name>: the single-file path of each target
  tmp,                 \* the temp directory
  wk,                  \* the sync worker thread of each run (_sync_worker's frame)
  dl,                  \* the "download missing file" worker threads
  runs                 \* number of sync runs started

vars == <<notes, is_syncing, is_stopping, sync_cancel_event, ui_queue,
          inflight_downloads, cancel_events, store, single, tmp, wk, dl, runs>>

Event(type, note, a, b, payload, run) ==
  [type |-> type, note |-> note, a |-> a, b |-> b, payload |-> payload, run |-> run]

NoNote == NewNote(None)

\* A worker's frame: the locals of _sync_worker (ids, idx, the counters, stopped,
\* the options, the copy of the record), of _download_yandex_folder_files (files,
\* k, results) and of _download_from_yandex (exc).
IdleWorker ==
  [pc |-> "idle", ids |-> <<>>, idx |-> 1, updated_count |-> 0, error_count |-> 0,
   stopped |-> FALSE, skip_large |-> FALSE, copy |-> NoNote, files |-> <<>>, k |-> 1,
   results |-> <<>>, exc |-> None]

Init ==
  /\ notes = [n \in Notes |-> NewNote(IF n = "n1" THEN "yandex" ELSE "http")]
  /\ is_syncing = FALSE
  /\ is_stopping = FALSE
  /\ sync_cancel_event = 0
  /\ ui_queue = <<>>
  /\ inflight_downloads = {}
  /\ cancel_events = [r \in Runs |-> FALSE]
  /\ store = [n \in Notes |-> EmptyFs]
  /\ single = [n \in Notes |-> None]
  /\ tmp = NoTemp
  /\ wk = [r \in Runs |-> IdleWorker]
  /\ dl = <<>>
  /\ runs = 0

\* ------------------------------------------------------------- GUI thread
\* _all_sync_ids: the non-group targets, in list order.
AllSyncIds == SelectSeq(NoteOrder, LAMBDA n : ~notes[n].is_group)

\* _start_sync without its "if self.is_syncing: return".
StartSyncUnguarded(note_ids, skip_large) ==
  /\ note_ids # <<>>
  /\ runs < MaxRuns
  /\ is_syncing' = TRUE
  /\ is_stopping' = FALSE
  /\ runs' = runs + 1
  /\ sync_cancel_event' = runs + 1
  /\ wk' = [wk EXCEPT ![runs + 1] =
              [IdleWorker EXCEPT !.pc = "loop", !.ids = note_ids,
                                 !.skip_large = skip_large]]
  /\ UNCHANGED <<notes, ui_queue, inflight_downloads, cancel_events, store,
                 single, tmp, dl>>

\* _start_sync(note_ids, reason)
StartSync(note_ids, skip_large) ==
  IF is_syncing \/ note_ids = <<>>
  THEN UNCHANGED vars
  ELSE /\ runs < MaxRuns
       /\ is_syncing' = TRUE
       /\ is_stopping' = FALSE
       /\ runs' = runs + 1
       /\ sync_cancel_event' = runs + 1
       /\ wk' = [wk EXCEPT ![runs + 1] =
                   [IdleWorker EXCEPT !.pc = "loop", !.ids = note_ids,
                                      !.skip_large = skip_large]]
       /\ UNCHANGED <<notes, ui_queue, inflight_downloads, cancel_events, store,
                      single, tmp, dl>>

\* _sync_all; skip_large is the state of the "skip large files" box
SyncAll == \E skip_large \in BOOLEAN : StartSync(AllSyncIds, skip_large)

\* _auto_sync_tick, the interval having elapsed
AutoSyncTick ==
  /\ ~is_syncing
  /\ \E n \in Notes : ~notes[n].is_group
  /\ \E skip_large \in BOOLEAN : StartSync(AllSyncIds, skip_large)

\* _stop_sync
StopSync ==
  /\ is_syncing /\ sync_cancel_event # 0
  /\ ~is_stopping
  /\ is_stopping' = TRUE
  /\ cancel_events' = [cancel_events EXCEPT ![sync_cancel_event] = TRUE]
  /\ UNCHANGED <<notes, is_syncing, sync_cancel_event, ui_queue, inflight_downloads,
                 store, single, tmp, wk, dl, runs>>

\* _apply_folder_progress on the GUI's record of the target
UpsertItem(items, item) ==
  LET at == { i \in 1..Len(items) :
                items[i].local_relative_path = item.local_relative_path }
  IN IF at = {} THEN Append(items, item)
     ELSE [items EXCEPT ![CHOOSE i \in at : \A j \in at : i <= j] = item]

ApplyFolderProgress(note, ev) ==
  [note EXCEPT
     !.source_type = "folder",
     !.status = StatusCheckingFolder(ev.a, ev.b),
     !.folder_files = IF ev.payload = <<>> THEN @
                      ELSE SortByPath(UpsertItem(@, ev.payload[1]))]

\* "missing_download_ok": the first item with that id gets the new hash
SetItemSha(items, file_id, new_hash) ==
  LET at == { i \in 1..Len(items) : items[i].local_relative_path = file_id }
  IN IF at = {} THEN items
     ELSE [items EXCEPT ![CHOOSE i \in at : \A j \in at : i <= j].sha256 = new_hash]

\* _process_ui_queue, one event of the queue
ProcessUiQueue ==
  /\ ui_queue # <<>>
  /\ LET ev == Head(ui_queue) IN
     /\ ui_queue' = Tail(ui_queue)
     /\ CASE ev.type = "note_precheck" ->
               /\ notes' = [notes EXCEPT ![ev.note] =
                              [@ EXCEPT !.status = StatusChecking(ev.a, ev.b),
                                        !.last_error = None]]
               /\ UNCHANGED <<is_syncing, is_stopping, sync_cancel_event,
                              inflight_downloads, cancel_events>>
          [] ev.type = "folder_progress" ->
               /\ notes' = [notes EXCEPT ![ev.note] = ApplyFolderProgress(@, ev)]
               /\ UNCHANGED <<is_syncing, is_stopping, sync_cancel_event,
                              inflight_downloads, cancel_events>>
          [] ev.type = "note_synced" ->
               /\ notes' = [notes EXCEPT ![ev.note] = ev.payload]
               /\ UNCHANGED <<is_syncing, is_stopping, sync_cancel_event,
                              inflight_downloads, cancel_events>>
          [] ev.type = "sync_finished" ->
               /\ is_syncing' = FALSE
               /\ is_stopping' = FALSE
               /\ sync_cancel_event' = 0
               /\ cancel_events' = [cancel_events EXCEPT ![ev.run] = FALSE]
               /\ UNCHANGED <<notes, inflight_downloads>>
          [] ev.type = "missing_download_ok" ->
               /\ notes' = [notes EXCEPT ![ev.note] =
                              [@ EXCEPT !.folder_files = SetItemSha(@, ev.a, ev.payload)]]
               /\ UNCHANGED <<is_syncing, is_stopping, sync_cancel_event,
                              inflight_downloads, cancel_events>>
          [] ev.type = "missing_download_err" ->
               /\ UNCHANGED <<notes, is_syncing, is_stopping, sync_cancel_event,
                              inflight_downloads, cancel_events>>
          [] ev.type = "missing_download_done" ->
               /\ inflight_downloads' = inflight_downloads \ {ev.payload}
               /\ UNCHANGED <<notes, is_syncing, is_stopping, sync_cancel_event,
                              cancel_events>>
  /\ UNCHANGED <<store, single, tmp, wk, dl, runs>>

\* ------------------------------------------------------ sync worker thread
\* Return, if _sync_worker did not put the "note_synced" event.
ReturnSilent(r, w, synced) ==
  /\ wk' = [wk EXCEPT ![r] =
       [w EXCEPT
          !.copy = synced,
          !.files = <<>>, !.k = 1, !.results = <<>>, !.exc = None,
          !.pc = IF cancel_events[r] THEN "finish" ELSE "loop",
          !.idx = IF cancel_events[r] THEN @ ELSE @ + 1]]
  /\ UNCHANGED ui_queue

\* Return, if the "note_synced" event carried the worker's copy as it was
\* before sync_single_note changed it.
ReturnStale(r, w, synced) ==
  /\ wk' = [wk EXCEPT ![r] =
       [w EXCEPT
          !.copy = synced,
          !.files = <<>>, !.k = 1, !.results = <<>>, !.exc = None,
          !.error_count = IF synced.last_error \notin {None, ""} THEN @ + 1 ELSE @,
          !.updated_count = IF synced.last_error \in {None, ""}
                               /\ synced.status.kind \in {"Updated", "Folder synced"}
                            THEN @ + 1 ELSE @,
          !.stopped = @ \/ synced.status.kind = "Stopped" \/ cancel_events[r],
          !.pc = IF cancel_events[r] THEN "finish" ELSE "loop",
          !.idx = IF cancel_events[r] THEN @ ELSE @ + 1]]
  /\ ui_queue' = Append(ui_queue, Event("note_synced", w.ids[w.idx], 0, 0, w.copy, r))

\* The end of one iteration of _sync_worker's loop, sync_single_note having
\* returned synced: the counters, the "note_synced" event, the cancel check.
Return(r, w, synced) ==
  /\ wk' = [wk EXCEPT ![r] =
       [w EXCEPT
          !.copy = synced,
          !.files = <<>>, !.k = 1, !.results = <<>>, !.exc = None,
          !.error_count = IF synced.last_error \notin {None, ""} THEN @ + 1 ELSE @,
          !.updated_count = IF synced.last_error \in {None, ""}
                               /\ synced.status.kind \in {"Updated", "Folder synced"}
                            THEN @ + 1 ELSE @,
          !.stopped = @ \/ synced.status.kind = "Stopped" \/ cancel_events[r],
          !.pc = IF cancel_events[r] THEN "finish" ELSE "loop",
          !.idx = IF cancel_events[r] THEN @ ELSE @ + 1]]
  /\ ui_queue' = Append(ui_queue, Event("note_synced", w.ids[w.idx], 0, 0, synced, r))

\* Cancelled, if the handler also reset what the earlier syncs recorded.
CancelledForgetting(r, w) ==
  Return(r, w, [w.copy EXCEPT !.status = Status("Stopped"), !.last_error = None,
                              !.sha256 = None, !.source_type = None,
                              !.folder_files = <<>>])

\* except SyncCancelled: in sync_single_note
Cancelled(r, w) ==
  Return(r, w, [w.copy EXCEPT !.status = Status("Stopped"), !.last_error = None])

\* Failed, if an error ended the batch.
FailedEndsRun(r, w, msg) ==
  /\ wk' = [wk EXCEPT ![r] =
       [w EXCEPT !.copy = [w.copy EXCEPT !.status = StatusError(msg), !.last_error = msg],
                 !.error_count = @ + 1, !.pc = "finish"]]
  /\ ui_queue' = Append(ui_queue, Event("note_synced", w.ids[w.idx], 0, 0,
                   [w.copy EXCEPT !.status = StatusError(msg), !.last_error = msg], r))

\* except Exception: in sync_single_note
Failed(r, w, msg) ==
  Return(r, w, [w.copy EXCEPT !.status = StatusError(msg), !.last_error = msg])

\* The top of _sync_worker's loop, up to the first request of download_source.
LoopTop(r) ==
  LET w == wk[r]
      n == w.ids[w.idx]
  IN /\ w.pc = "loop"
     /\ IF w.idx > Len(w.ids)
        THEN /\ wk' = [wk EXCEPT ![r].pc = "finish"]
             /\ UNCHANGED ui_queue
        ELSE IF cancel_events[r]
        THEN /\ wk' = [wk EXCEPT ![r].pc = "finish", ![r].stopped = TRUE]
             /\ UNCHANGED ui_queue
        ELSE IF notes[n].is_group
        THEN /\ wk' = [wk EXCEPT ![r].idx = @ + 1]
             /\ UNCHANGED ui_queue
        ELSE /\ ui_queue' = Append(ui_queue,
                                   Event("note_precheck", n, w.idx, Len(w.ids), <<>>, r))
             /\ wk' = [wk EXCEPT ![r] =
                  [w EXCEPT !.copy = notes[n],
                            !.pc = IF notes[n].url = "yandex" THEN "root" ELSE "s_fetch"]]
     /\ UNCHANGED <<notes, is_syncing, is_stopping, sync_cancel_event,
                    inflight_downloads, cancel_events, store, single, tmp, dl, runs>>

\* Finish, if the worker ended without its "sync_finished" event.
FinishSilent(r) ==
  /\ wk[r].pc = "finish"
  /\ wk' = [wk EXCEPT ![r] = [IdleWorker EXCEPT !.pc = "done"]]
  /\ UNCHANGED <<notes, is_syncing, is_stopping, sync_cancel_event, ui_queue,
                 inflight_downloads, cancel_events, store, single, tmp, dl, runs>>

\* The end of _sync_worker: the "sync_finished" event.
Finish(r) ==
  LET w == wk[r]
  IN /\ w.pc = "finish"
     /\ ui_queue' = Append(ui_queue, Event("sync_finished", None, w.updated_count,
                                           w.error_count, w.stopped, r))
     /\ wk' = [wk EXCEPT ![r] = [IdleWorker EXCEPT !.pc = "done"]]
     /\ UNCHANGED <<notes, is_syncing, is_stopping, sync_cancel_event,
                    inflight_downloads, cancel_events, store, single, tmp, dl, runs>>

\* What a worker step that touches neither the GUI's state nor the disk leaves alone.
WorkerFrame ==
  UNCHANGED <<notes, is_syncing, is_stopping, sync_cancel_event,
              inflight_downloads, cancel_events, store, single, dl, runs>>

Goto(r, w, pc) ==
  /\ wk' = [wk EXCEPT ![r] = [w EXCEPT !.pc = pc]]
  /\ UNCHANGED ui_queue

\* _download_from_yandex: _fetch_yandex_public_resource of the link's resource.
FetchYandexPublicResource(r) ==
  LET w == wk[r]
  IN /\ w.pc = "root"
     /\ IF cancel_events[r] THEN Cancelled(r, w)
        ELSE \/ Goto(r, w, "collect")                  \* type == "dir"
             \/ Goto(r, w, "s_payload")                \* a file, or 404
             \/ Failed(r, w, MsgHttp)
     /\ UNCHANGED tmp
     /\ WorkerFrame

\* _download_yandex_folder_files: _collect_yandex_files and the first progress
\* callback. A 404 gives the empty listing.
CollectYandexFiles(r) ==
  LET w == wk[r]
      n == w.ids[w.idx]
  IN /\ w.pc = "collect"
     /\ IF cancel_events[r] THEN Cancelled(r, w)
        ELSE \/ \E files \in Listings :
                  /\ wk' = [wk EXCEPT ![r] =
                       [w EXCEPT !.files = files, !.k = 1, !.results = <<>>, !.pc = "file"]]
                  /\ ui_queue' = Append(ui_queue,
                       Event("folder_progress", n, 0, Len(files), <<>>, r))
             \/ Failed(r, w, MsgHttp)
     /\ UNCHANGED tmp
     /\ WorkerFrame

\* The end of one iteration of the loop over the listed files: results.append
\* and the progress callback with the preview of the file.
FileDone(r, w, result) ==
  LET n == w.ids[w.idx]
      preview == SyncedFileItem(result.remote_path, result.local_relative_path, "",
                                result.size_bytes)
  IN /\ wk' = [wk EXCEPT ![r] =
          [w EXCEPT !.results = Append(@, result), !.k = @ + 1, !.pc = "file"]]
     /\ ui_queue' = Append(ui_queue,
          Event("folder_progress", n, w.k, Len(w.files), <<preview>>, r))

\* sync_single_note's folder branch: _apply_folder_sync of the sorted results.
Reconcile(r, w) ==
  LET n == w.ids[w.idx]
  IN \E res \in { ApplyFolderSync(w.copy, store[n], single[n], tmp,
                                   SortByPath(w.results)) } :
       /\ store' = [store EXCEPT ![n] = res.fs]
       /\ single' = [single EXCEPT ![n] = res.single]
       /\ tmp' = res.tmp
       /\ IF res.err # None
          THEN Failed(r, w, res.err)
          ELSE Return(r, w, [res.note EXCEPT !.last_error = None])

GuiFrame ==
  UNCHANGED <<notes, is_syncing, is_stopping, sync_cancel_event,
              inflight_downloads, cancel_events, dl, runs>>

\* options.skip_large_files and max_file_size_bytes > 0 and size > max_file_size_bytes
IsSkipped(w, entry) == w.skip_large /\ SizeLimit > 0 /\ entry.size > SizeLimit

\* _download_yandex_folder_files, one iteration of the loop over the listed files
\* up to the request of the download link (which answers with an href or with an
\* error status), or its return and the reconciliation.
DownloadYandexFolderFiles(r) ==
  LET w == wk[r]
      entry == w.files[w.k]
  IN /\ w.pc = "file"
     /\ IF w.k > Len(w.files)
        THEN Reconcile(r, w)
        ELSE /\ UNCHANGED <<store, single, tmp>>
             /\ IF cancel_events[r] THEN Cancelled(r, w)
                ELSE IF IsSkipped(w, entry)
                THEN FileDone(r, w, DownloadedFolderFile(entry, None, TRUE, None))
                ELSE \/ Goto(r, w, "f_fetch")          \* the payload has an href
                     \/ FileDone(r, w, DownloadedFolderFile(entry, None, FALSE, MsgHttp))
     /\ GuiFrame

\* _download_from_yandex_resource: _fetch_bytes of the href, then _write_temp_file.
FetchBytes(r) ==
  LET w == wk[r]
      entry == w.files[w.k]
      t == <<r, w.ids[w.idx], w.k>>
  IN /\ w.pc = "f_fetch"
     /\ IF cancel_events[r]
        THEN /\ FileDone(r, w,
                         DownloadedFolderFile(entry, None, FALSE, MsgCancelled))
             /\ UNCHANGED tmp
        ELSE \/ \E c \in Contents :
                  /\ tmp' = [tmp EXCEPT ![t] = c]
                  /\ FileDone(r, w, DownloadedFolderFile(entry, t, FALSE, None))
             \/ /\ FileDone(r, w, DownloadedFolderFile(entry, None, FALSE, MsgHttp))
                /\ UNCHANGED tmp
     /\ UNCHANGED <<store, single>>
     /\ GuiFrame

\* sync_single_note's single-file branch, the downloaded bytes being data.
ReconcileSingle(r, w, data) ==
  LET n == w.ids[w.idx]
      new_hash == Sha256(data)
      has_changes == IF single[n] # None THEN Sha256(single[n]) # new_hash ELSE TRUE
      synced == [w.copy EXCEPT
                   !.status = Status(IF has_changes THEN "Updated" ELSE "No changes"),
                   !.sha256 = new_hash,
                   !.source_type = "file",
                   !.folder_files = <<>>,
                   !.last_error = None]
  IN /\ single' = [single EXCEPT ![n] = IF has_changes THEN data ELSE @]
     /\ store' = [store EXCEPT ![n] = Rmtree(@)]
     /\ Return(r, w, synced)

\* A DownloadError of the single-file download of a Yandex link: the fallback
\* to the public root (except DownloadError: in _download_from_yandex).
Fallback(r, w, msg) ==
  /\ wk' = [wk EXCEPT ![r] = [w EXCEPT !.exc = msg, !.pc = "root2"]]
  /\ UNCHANGED ui_queue

\* _download_from_yandex_resource of the link's resource: the request of the
\* download link, which answers with an href or with an error status.
DownloadFromYandexResource(r) ==
  LET w == wk[r]
  IN /\ w.pc = "s_payload"
     /\ IF cancel_events[r] THEN Cancelled(r, w)
        ELSE \/ Goto(r, w, "s_fetch")
             \/ Fallback(r, w, MsgHttp)
     /\ UNCHANGED tmp
     /\ WorkerFrame

\* _fetch_bytes of a single file (the href of a Yandex file, or a direct link),
\* _write_temp_file and the single-file branch of sync_single_note.
FetchBytesSingle(r) ==
  LET w == wk[r]
  IN /\ w.pc = "s_fetch"
     /\ IF cancel_events[r]
        THEN Cancelled(r, w) /\ UNCHANGED <<store, single>>
        ELSE \/ \E c \in (IF w.copy.url = "yandex" THEN Contents ELSE DirectContents) :
                  ReconcileSingle(r, w, c)
             \/ /\ IF w.copy.url = "yandex" THEN Fallback(r, w, MsgHttp)
                   ELSE Failed(r, w, MsgHttp)
                /\ UNCHANGED <<store, single>>
     /\ UNCHANGED tmp
     /\ GuiFrame

\* _download_from_yandex, in "except DownloadError": the public root is fetched;
\* unless it is a folder the DownloadError is raised again.
FetchYandexPublicRoot(r) ==
  LET w == wk[r]
  IN /\ w.pc = "root2"
     /\ IF cancel_events[r] THEN Cancelled(r, w)
        ELSE \/ Goto(r, w, "collect")
             \/ Failed(r, w, w.exc)
             \/ Failed(r, w, MsgHttp)
     /\ UNCHANGED tmp
     /\ WorkerFrame

\* ------------------------------------------------------------ the program
Worker(r) ==
  \/ LoopTop(r)
  \/ FetchYandexPublicResource(r)
  \/ CollectYandexFiles(r)
  \/ DownloadYandexFolderFiles(r)
  \/ FetchBytes(r)
  \/ DownloadFromYandexResource(r)
  \/ FetchBytesSingle(r)
  \/ FetchYandexPublicRoot(r)
  \/ Finish(r)

Next ==
  \/ SyncAll
  \/ AutoSyncTick
  \/ StopSync
  \/ ProcessUiQueue
  \/ \E r \in Runs : Worker(r)

Spec == Init /\ [][Next]_vars

\* ------------------------------------------- "download missing file" requests
\* SyncedFileItem.id as the string it is: the local relative path, "/"-joined.
RECURSIVE PathStr(_)
PathStr(p) ==
  IF p = <<>> THEN ""
  ELSE IF Len(p) = 1 THEN p[1]
  ELSE p[1] \o "/" \o PathStr(Tail(p))

\* key = f"{note_id}:{file_id}"
Key(note_id, file_id) == note_id \o ":" \o PathStr(file_id)

\* next((x for x in note.folder_files if x.id == file_id), None), as <<>> or <<x>>
FindFile(items, file_id) ==
  LET at == { i \in 1..Len(items) : items[i].local_relative_path = file_id }
  IN IF at = {} THEN <<>> ELSE <<items[CHOOSE i \in at : \A j \in at : i <= j]>>

DlFrame ==
  UNCHANGED <<is_syncing, is_stopping, sync_cancel_event, cancel_events, single, wk,
              runs>>

\* _start_missing_download without its "if key in self.inflight_downloads: return".
StartMissingDownloadUnchecked(note_id, file_id) ==
  IF FindFile(notes[note_id].folder_files, file_id) = <<>>
  THEN UNCHANGED vars
  ELSE /\ Len(dl) < MaxDownloads
       /\ inflight_downloads' = inflight_downloads \cup {Key(note_id, file_id)}
       /\ dl' = Append(dl, [pc |-> "fetch", note |-> note_id, file |-> file_id])
       /\ UNCHANGED <<notes, ui_queue, store, tmp>>
       /\ DlFrame

\* _start_missing_download(note_id, file_id): the worker thread is started.
StartMissingDownload(note_id, file_id) ==
  IF Key(note_id, file_id) \in inflight_downloads
  THEN UNCHANGED vars
  ELSE IF FindFile(notes[note_id].folder_files, file_id) = <<>>
  THEN UNCHANGED vars
  ELSE /\ Len(dl) < MaxDownloads
       /\ inflight_downloads' = inflight_downloads \cup {Key(note_id, file_id)}
       /\ dl' = Append(dl, [pc |-> "fetch", note |-> note_id, file |-> file_id])
       /\ UNCHANGED <<notes, ui_queue, store, tmp>>
       /\ DlFrame

\* _open_or_download_source_file on a file of the source tree of a target
OpenOrDownloadSourceFile ==
  \E n \in Notes : \E i \in 1..Len(notes[n].folder_files) :
    LET file_obj == notes[n].folder_files[i]
    IN IF FsExists(store[n], file_obj.local_relative_path)
       THEN UNCHANGED vars                                  \* _open_path
       ELSE StartMissingDownload(n, file_obj.local_relative_path)

\* DlFailed, if the thread ended in the handler, without the "finally".
DlFailedWithoutDone(d, msg) ==
  /\ ui_queue' = Append(ui_queue,
       Event("missing_download_err", dl[d].note, dl[d].file, 0, msg, 0))
  /\ dl' = [dl EXCEPT ![d].pc = "ended"]

\* except Exception: in _missing_download_worker
DlFailed(d, msg) ==
  /\ ui_queue' = Append(ui_queue,
       Event("missing_download_err", dl[d].note, dl[d].file, 0, msg, 0))
  /\ dl' = [dl EXCEPT ![d].pc = "finally"]

\* _missing_download_worker up to download_single_file_to_temp's return: the
\* record and the file are looked up, the file is fetched and staged.
DownloadSingleFileToTemp(d) ==
  LET w == dl[d]
      found == FindFile(notes[w.note].folder_files, w.file)
  IN /\ d \in DOMAIN dl
     /\ w.pc = "fetch"
     /\ IF notes[w.note] = Absent THEN DlFailed(d, MsgNoNote) /\ UNCHANGED tmp
        ELSE IF found = <<>> THEN DlFailed(d, MsgNoFile) /\ UNCHANGED tmp
        ELSE IF notes[w.note].url # "yandex"
        THEN DlFailed(d, MsgNotYandex) /\ UNCHANGED tmp
        ELSE \/ \E c \in Contents :
                  /\ tmp' = [tmp EXCEPT ![<<0, w.note, d>>] = c]
                  /\ dl' = [dl EXCEPT ![d].pc = "apply"]
                  /\ UNCHANGED ui_queue
             \/ DlFailed(d, MsgHttp) /\ UNCHANGED tmp
     /\ UNCHANGED <<notes, inflight_downloads, store>>
     /\ DlFrame

\* SyncEngine.download_missing_file after the download: mkdir of the parent,
\* _replace_file, the hash; then the "missing_download_ok" event.
DownloadMissingFile(d) ==
  LET w == dl[d]
      t == <<0, w.note, d>>
  IN /\ d \in DOMAIN dl
     /\ w.pc = "apply"
     /\ \E rp \in { ReplaceFile(store[w.note], w.file, tmp[t]) } :
          /\ store' = [store EXCEPT ![w.note] = rp.fs]
          /\ IF rp.err # None
             THEN DlFailed(d, rp.err) /\ UNCHANGED tmp
             ELSE /\ tmp' = [tmp EXCEPT ![t] = None]
                  /\ ui_queue' = Append(ui_queue,
                       Event("missing_download_ok", w.note, w.file, 0, Sha256(tmp[t]), 0))
                  /\ dl' = [dl EXCEPT ![d].pc = "finally"]
     /\ UNCHANGED <<notes, inflight_downloads>>
     /\ DlFrame

\* finally: in _missing_download_worker; the thread ends.
MissingDownloadDone(d) ==
  /\ d \in DOMAIN dl
  /\ dl[d].pc = "finally"
  /\ ui_queue' = Append(ui_queue,
       Event("missing_download_done", None, 0, 0, Key(dl[d].note, dl[d].file), 0))
  /\ dl' = [dl EXCEPT ![d].pc = "ended"]
  /\ UNCHANGED <<notes, inflight_downloads, store, tmp>>
  /\ DlFrame

MissingDownloadWorker(d) ==
  \/ DownloadSingleFileToTemp(d)
  \/ DownloadMissingFile(d)
  \/ MissingDownloadDone(d)

\* A folder sync of n1 has listed a and a/b and downloaded neither: both are in
\* the record's synced files and missing on disk.
InitDl ==
  LET failed(e) == DownloadedFolderFile(e, None, FALSE, MsgHttp)
      listing == CHOOSE l \in Listings : Len(l) = 2 /\ l[1].path # l[2].path
      res == ApplyFolderSync(NewNote("yandex"), EmptyFs, None, NoTemp,
                             <<failed(listing[1]), failed(listing[2])>>)
  IN /\ notes = [n \in Notes |->
                   IF n = "n1" THEN [res.note EXCEPT !.last_error = None]
                   ELSE NewNote("http")]
     /\ is_syncing = FALSE
     /\ is_stopping = FALSE
     /\ sync_cancel_event = 0
     /\ ui_queue = <<>>
     /\ inflight_downloads = {}
     /\ cancel_events = [r \in Runs |-> FALSE]
     /\ store = [n \in Notes |-> IF n = "n1" THEN res.fs ELSE EmptyFs]
     /\ single = [n \in Notes |-> None]
     /\ tmp = NoTemp
     /\ wk = [r \in Runs |-> IdleWorker]
     /\ dl = <<>>
     /\ runs = 0

NextDl ==
  \/ OpenOrDownloadSourceFile
  \/ ProcessUiQueue
  \/ \E d \in 1..MaxDownloads : MissingDownloadWorker(d)

SpecDl == InitDl /\ [][NextDl]_vars

\* _delete_note of a target (the button is enabled when no sync runs): its
\* single-file path and its source directory are deleted, then its record.
DeleteNote(n) ==
  /\ ~is_syncing
  /\ notes[n] # Absent
  /\ ~notes[n].is_group
  /\ single' = [single EXCEPT ![n] = None]
  /\ store' = [store EXCEPT ![n] = Rmtree(@)]
  /\ notes' = [notes EXCEPT ![n] = Absent]
  /\ UNCHANGED <<is_syncing, is_stopping, sync_cancel_event, ui_queue,
                 inflight_downloads, cancel_events, tmp, wk, dl, runs>>

NextDel ==
  \/ NextDl
  \/ \E n \in Notes : DeleteNote(n)

SpecDel == InitDl /\ [][NextDel]_vars

\* ----------------------------------- the single-file branch, statement by statement
\* sync_single_note once download_source has the bytes of a single file: the
\* run FileRun syncs one target; every file operation of the branch may raise
\* an OSError (MsgIO), as the operating system decides.
FileRun == 1
MsgIO == "[Errno 5] Input/output error"
FilePcs == {"write_temp", "hash", "replace", "fields", "finally", "returned"}

\* The clock in ticks; now_iso() formats it, as text, with the resolution of one
\* second.
MaxClock == 3
TicksPerSecond == 2
Clock == 0..MaxClock
NowIso(t) == ToString(t \div TicksPerSecond)

\* The locals of the branch: temp_path, new_hash, has_changes; and the clock.
FileWorker ==
  [temp_path |-> None, new_hash |-> None, has_changes |-> TRUE, clock |-> 0]
    @@ IdleWorker

FileFrame ==
  UNCHANGED <<notes, is_syncing, is_stopping, sync_cancel_event, ui_queue,
              inflight_downloads, cancel_events, dl, runs>>

\* An exception raised inside "try: ... finally:": control goes to the finally.
Raise(w, msg) == [w EXCEPT !.exc = msg, !.pc = "finally"]

\* _write_temp_file: NamedTemporaryFile(delete=False) in the temp directory,
\* holding the downloaded bytes.
WriteTempFile ==
  LET w == wk[FileRun]
      t == <<FileRun, w.ids[w.idx], 0>>
  IN /\ w.pc = "write_temp"
     /\ \E data \in Contents :
          /\ tmp' = [tmp EXCEPT ![t] = data]
          /\ wk' = [wk EXCEPT ![FileRun] = [w EXCEPT !.temp_path = t, !.pc = "hash"]]
     /\ UNCHANGED <<store, single>>
     /\ FileFrame

\* has_changes taken from the hash the record holds instead of the file's.
CompareHashesWithRecord ==
  LET w == wk[FileRun]
      new_hash == Sha256(tmp[w.temp_path])
  IN /\ w.pc = "hash"
     /\ \/ wk' = [wk EXCEPT ![FileRun] = Raise(w, MsgIO)]
        \/ wk' = [wk EXCEPT ![FileRun] =
                    [w EXCEPT !.new_hash = new_hash,
                              !.has_changes = w.copy.sha256 # new_hash,
                              !.pc = "replace"]]
     /\ UNCHANGED <<store, single, tmp>>
     /\ FileFrame

\* new_hash = _sha256_file(temp_path); has_changes = the destination does not
\* exist or its hash differs.
CompareHashes ==
  LET w == wk[FileRun]
      n == w.ids[w.idx]
      new_hash == Sha256(tmp[w.temp_path])
  IN /\ w.pc = "hash"
     /\ \/ wk' = [wk EXCEPT ![FileRun] = Raise(w, MsgIO)]
        \/ wk' = [wk EXCEPT ![FileRun] =
                    [w EXCEPT !.new_hash = new_hash,
                              !.has_changes = IF single[n] # None
                                              THEN Sha256(single[n]) # new_hash
                                              ELSE TRUE,
                              !.pc = "replace"]]
     /\ UNCHANGED <<store, single, tmp>>
     /\ FileFrame

\* if has_changes: _replace_file(temp_path, destination), last_updated_at =
\* now_iso(), status "Updated"; else: temp_path.unlink(missing_ok=True), status
\* "No changes".
ReplaceOrDiscard ==
  LET w == wk[FileRun]
      n == w.ids[w.idx]
  IN /\ w.pc = "replace"
     /\ IF w.has_changes
        THEN \/ /\ wk' = [wk EXCEPT ![FileRun] = Raise(w, MsgIO)]
                /\ UNCHANGED <<single, tmp>>
             \/ /\ single[n] # None
                /\ single' = [single EXCEPT ![n] = None]
                /\ wk' = [wk EXCEPT ![FileRun] = Raise(w, MsgIO)]
                /\ UNCHANGED tmp
             \/ /\ single' = [single EXCEPT ![n] = tmp[w.temp_path]]
                /\ tmp' = [tmp EXCEPT ![w.temp_path] = None]
                /\ wk' = [wk EXCEPT ![FileRun] =
                            [w EXCEPT !.copy.last_updated_at = NowIso(w.clock),
                                      !.copy.status = Status("Updated"),
                                      !.pc = "fields"]]
        ELSE /\ tmp' = [tmp EXCEPT ![w.temp_path] = None]
             /\ wk' = [wk EXCEPT ![FileRun] =
                         [w EXCEPT !.copy.status = Status("No changes"),
                                   !.pc = "fields"]]
             /\ UNCHANGED single
     /\ UNCHANGED store
     /\ FileFrame

\* The record's fields, shutil.rmtree(source_dir, ignore_errors=True) and the
\* return statement, which passes through the finally.
SetFileFields ==
  LET w == wk[FileRun]
      n == w.ids[w.idx]
  IN /\ w.pc = "fields"
     /\ store' = [store EXCEPT ![n] = Rmtree(@)]
     /\ wk' = [wk EXCEPT ![FileRun] =
                 [w EXCEPT !.copy.sha256 = w.new_hash,
                           !.copy.source_type = "file",
                           !.copy.folder_files = <<>>,
                           !.copy.last_error = None,
                           !.updated_count = IF w.has_changes THEN 1 ELSE 0,
                           !.pc = "finally"]]
     /\ UNCHANGED <<single, tmp>>
     /\ FileFrame

\* The finally clause without its statement.
FinallyKeepsTemp ==
  LET w == wk[FileRun]
  IN /\ w.pc = "finally"
     /\ wk' = [wk EXCEPT ![FileRun] =
                 IF w.exc # None
                 THEN [w EXCEPT !.copy.status = StatusError(w.exc),
                                !.copy.last_error = w.exc,
                                !.error_count = 1, !.pc = "returned"]
                 ELSE [w EXCEPT !.pc = "returned"]]
     /\ UNCHANGED <<store, single, tmp>>
     /\ FileFrame

\* finally: temp_path.unlink(missing_ok=True); then sync_single_note returns,
\* through "except Exception" if an exception is in flight.
FinallyUnlink ==
  LET w == wk[FileRun]
  IN /\ w.pc = "finally"
     /\ tmp' = [tmp EXCEPT ![w.temp_path] = None]
     /\ wk' = [wk EXCEPT ![FileRun] =
                 IF w.exc # None
                 THEN [w EXCEPT !.copy.status = StatusError(w.exc),
                                !.copy.last_error = w.exc,
                                !.error_count = 1, !.pc = "returned"]
                 ELSE [w EXCEPT !.pc = "returned"]]
     /\ UNCHANGED <<store, single>>
     /\ FileFrame

\* NoteItem with last_updated_at.
StampedNote(kind) == [last_updated_at |-> None] @@ NewNote(kind)

\* A target in any state a previous sync can have left it in, about to be synced
\* as a single file at the time clock.  After a sync as a file the record holds
\* the hash of what was downloaded (rec), while the destination (c) may since
\* have been removed or replaced: _replace_file may have failed between its
\* unlink and its move, and the directory is the user's.
InitFile ==
  /\ \E n \in Notes, mode \in {None, "file", "folder"},
        c \in {None} \cup Contents, rec \in {None} \cup Contents, clock \in Clock :
       \E stamp \in {None} \cup { NowIso(t0) : t0 \in 0..clock } :
       /\ mode = None => (c = None /\ rec = None /\ stamp = None)
       /\ mode = "folder" => (c = None /\ rec = None)
       /\ mode = "file" => rec # None
       /\ notes = [m \in Notes |->
                     IF m = n
                     THEN [StampedNote("http") EXCEPT
                             !.source_type = mode,
                             !.sha256 = IF rec # None THEN Sha256(rec) ELSE None,
                             !.last_updated_at = stamp]
                     ELSE StampedNote("http")]
       /\ wk = [r \in Runs |->
                  IF r = FileRun
                  THEN [FileWorker EXCEPT !.pc = "write_temp", !.ids = <<n>>,
                                          !.copy = notes[n], !.clock = clock]
                  ELSE FileWorker]
       /\ single = [m \in Notes |-> IF m = n THEN c ELSE None]
       /\ store = [m \in Notes |->
                     IF m = n /\ mode = "folder"
                     THEN [EmptyFs EXCEPT ![<<>>] = "dir"] ELSE EmptyFs]
  /\ is_syncing = TRUE
  /\ is_stopping = FALSE
  /\ sync_cancel_event = FileRun
  /\ ui_queue = <<>>
  /\ inflight_downloads = {}
  /\ cancel_events = [r \in Runs |-> FALSE]
  /\ tmp = NoTemp
  /\ dl = <<>>
  /\ runs = 1

NextFile ==
  \/ WriteTempFile
  \/ CompareHashes
  \/ ReplaceOrDiscard
  \/ SetFileFields
  \/ FinallyUnlink

SpecFile == InitFile /\ [][NextFile]_vars

\* ------------------------------------ one folder reconciliation on a drawn state
\* _apply_folder_sync of the target RecNote in the run RecRun, on any state an
\* earlier sync can have left and any results the fetcher can return.
RecRun == 1
RecNote == "n1"

\* The frame of the worker with the time at which line 1003 is reached.
RecWorker == [clock |-> 0] @@ IdleWorker

\* What _download_yandex_folder_files returns for the listing l when the file at
\* position i ends as o[i]: staged with the content o[i], "failed" or "skipped".
Outcomes == Contents \cup {"failed", "skipped"}

ResultsOf(l, o) ==
  [i \in 1..Len(l) |->
     DownloadedFolderFile(l[i],
                          IF o[i] \in Contents THEN <<RecRun, RecNote, i>> ELSE None,
                          o[i] = "skipped",
                          IF o[i] = "failed" THEN MsgHttp ELSE None)]

StagedBy(l, o) ==
  [t \in TempIds |->
     IF \E i \in 1..Len(l) : t = <<RecRun, RecNote, i>> /\ o[i] \in Contents
     THEN o[t[3]] ELSE None]

IsOutcome(l, o) ==
  \A i \in 1..Len(l) : o[i] = "skipped" => l[i].size > SizeLimit

\* if changed_count > 0 or removed_count > 0: the stamp that forgets the switch
\* into folder mode.
StampUpdatedUnlessSwitched(note, previous_source_type, changed_count, removed_count, now) ==
  IF changed_count > 0 \/ removed_count > 0
  THEN [note EXCEPT !.last_updated_at = now] ELSE note

\* if changed_count > 0 or removed_count > 0 or previous_source_type != "folder":
\*     note.last_updated_at = now_iso()
StampUpdated(note, previous_source_type, changed_count, removed_count, now) ==
  IF changed_count > 0 \/ removed_count > 0 \/ previous_source_type # "folder"
  THEN [note EXCEPT !.last_updated_at = now] ELSE note

\* The states an earlier sync at time t0 leaves: never synced; synced as a
\* single file; synced as a folder whose listing was l0 with outcomes o0.
PrevListings ==
  { l \in SeqsUpTo(Entries \cup {GoneEntry}, MaxFiles) :
      \A i \in 1..Len(l) - 1 : PathLess(l[i].path, l[i + 1].path) }

FolderBases(t0) ==
  { [note |-> StampUpdated([res.note EXCEPT !.last_error = None], None,
                           res.changed, res.removed, NowIso(t0)),
     fs |-> res.fs, single |-> res.single] :
      res \in { r \in UNION { { ApplyFolderSync(StampedNote("yandex"), EmptyFs, None,
                                               StagedBy(l0, o0),
                                               SortByPath(ResultsOf(l0, o0))) :
                                  o0 \in [1..Len(l0) -> {"c1", "failed"}] } :
                              l0 \in PrevListings } :
                  r.err = None } }

RecBases(t0) ==
  {[note |-> StampedNote("yandex"), fs |-> EmptyFs, single |-> None]}
  \cup {[note |-> [StampedNote("yandex") EXCEPT
                     !.source_type = "file", !.sha256 = Sha256("c1"),
                     !.status = Status("Updated"),
                     !.last_updated_at = NowIso(t0)],
         fs |-> EmptyFs, single |-> "c1"]}
  \cup FolderBases(t0)

InitRec ==
  /\ \E t0 \in Clock, t1 \in Clock, l \in Listings :
       /\ t0 < t1
       /\ \E base \in RecBases(t0), o \in [1..Len(l) -> Outcomes] :
            /\ IsOutcome(l, o)
            /\ notes = [n \in Notes |->
                          IF n = RecNote THEN base.note ELSE StampedNote("http")]
            /\ store = [n \in Notes |-> IF n = RecNote THEN base.fs ELSE EmptyFs]
            /\ single = [n \in Notes |-> IF n = RecNote THEN base.single ELSE None]
            /\ tmp = StagedBy(l, o)
            /\ wk = [r \in Runs |->
                       IF r = RecRun
                       THEN [RecWorker EXCEPT
                               !.pc = "file", !.ids = <<RecNote>>, !.copy = base.note,
                               !.files = l, !.k = Len(l) + 1,
                               !.results = ResultsOf(l, o), !.clock = t1]
                       ELSE RecWorker]
  /\ is_syncing = TRUE
  /\ is_stopping = FALSE
  /\ sync_cancel_event = RecRun
  /\ ui_queue = <<>>
  /\ inflight_downloads = {}
  /\ cancel_events = [r \in Runs |-> FALSE]
  /\ dl = <<>>
  /\ runs = 1

\* sync_single_note's folder branch: _apply_folder_sync with its timestamp, then
\* the return, through "except Exception" if the reconciliation raised.
ReconcileRec ==
  LET w == wk[RecRun]
  IN /\ w.pc = "file"
     /\ \E res \in { ApplyFolderSync(w.copy, store[RecNote], single[RecNote], tmp,
                                     SortByPath(w.results)) } :
          /\ store' = [store EXCEPT ![RecNote] = res.fs]
          /\ single' = [single EXCEPT ![RecNote] = res.single]
          /\ tmp' = res.tmp
          /\ wk' = [wk EXCEPT ![RecRun] =
                      IF res.err # None
                      THEN [w EXCEPT !.copy.status = StatusError(res.err),
                                     !.copy.last_error = res.err,
                                     !.error_count = 1, !.pc = "returned"]
                      ELSE [w EXCEPT
                              !.copy = StampUpdated([res.note EXCEPT !.last_error = None],
                                                    w.copy.source_type, res.changed,
                                                    res.removed, NowIso(w.clock)),
                              !.updated_count = res.updated, !.pc = "returned"]]
     /\ UNCHANGED <<notes, is_syncing, is_stopping, sync_cancel_event, ui_queue,
                    inflight_downloads, cancel_events, dl, runs>>

NextRec == ReconcileRec

SpecRec == InitRec /\ [][NextRec]_vars

\* ------------------------------------------------------------------ texts
\* A text (a Python str) is the sequence of its characters.
MaxKeyLen == 2
MaxPathLen == 3

Prefix ==
  <<"y", "a", "-", "d", "i", "s", "k", "-", "p", "u", "b", "l", "i", "c", ":", "/", "/">>
Whitespace == {" ", "\t", "\n"}
TextsUpTo(chars, n) == UNION { [1..k -> chars] : k \in 0..n }

\* str.lower, on the letters the texts are written with.
LowerChar(c) == CASE c = "K" -> "k" [] c = "P" -> "p" [] c = "Y" -> "y" [] OTHER -> c
Lower(s) == [i \in 1..Len(s) |-> LowerChar(s[i])]

\* str.strip(chars), str.startswith, str.find (0: not found), str.replace of
\* one character.
RECURSIVE LStrip(_, _)
LStrip(s, chars) ==
  With(s, LAMBDA t :
    IF t # <<>> /\ Head(t) \in chars THEN LStrip(Tail(t), chars) ELSE t)
RECURSIVE RStrip(_, _)
RStrip(s, chars) ==
  With(s, LAMBDA t :
    IF t # <<>> /\ t[Len(t)] \in chars THEN RStrip(SubSeq(t, 1, Len(t) - 1), chars)
    ELSE t)
Strip(s, chars) == RStrip(LStrip(s, chars), chars)
StartsWith(s, p) == Len(s) >= Len(p) /\ SubSeq(s, 1, Len(p)) = p
Find(s, sep) ==
  With(s, LAMBDA t :
    With({ i \in 1..(Len(t) - Len(sep) + 1) : SubSeq(t, i, i + Len(sep) - 1) = sep },
         LAMBDA at : IF at = {} THEN 0 ELSE CHOOSE i \in at : \A j \in at : i <= j))
Replace(s, old, new) == [i \in 1..Len(s) |-> IF s[i] = old THEN new ELSE s[i]]

\* Optional[dict]: found is FALSE for None; has_path is FALSE for a path of None.
NoResource == [found |-> FALSE, public_key |-> <<>>, has_path |-> FALSE, path |-> <<>>]
Resource(public_key, has_path, path) ==
  [found |-> TRUE, public_key |-> public_key, has_path |-> has_path,
   path |-> IF has_path THEN path ELSE <<>>]

\* key_part.strip().replace(" ", "+")
KeyPart(key_part) == Replace(Strip(key_part, Whitespace), " ", "+")

ParseYandexPublicPseudoUrl(raw) ==
  With(Strip(raw, Whitespace), LAMBDA trimmed :
  With(SubSeq(trimmed, Len(Prefix) + 1, Len(trimmed)), LAMBDA remainder :
  With(Find(remainder, <<":", "/">>), LAMBDA at :
  With(Strip(SubSeq(remainder, at + 2, Len(remainder)), {"/"}), LAMBDA cleaned :
  With(KeyPart(IF at > 0 THEN SubSeq(remainder, 1, at - 1) ELSE remainder),
       LAMBDA key_part :
    IF ~StartsWith(Lower(trimmed), Prefix) THEN NoResource
    ELSE IF remainder = <<>> THEN NoResource
    ELSE IF key_part = <<>> THEN NoResource
    ELSE Resource(Prefix \o key_part, at > 0 /\ cleaned # <<>>,
                  <<"/">> \o cleaned))))))

\* ------------------------------ _parse_yandex_public_pseudo_url on drawn inputs
\* The caller's frame: the text raw, written as Prefix KEY or Prefix KEY ":/" P,
\* and what the parser returned.
UrlRun == 1
UrlWorker ==
  [raw |-> <<>>, key |-> <<>>, p |-> <<>>, with_path |-> FALSE, wrapped |-> <<>>,
   parsed |-> NoResource, direct |-> NoResource, relative |-> ""] @@ IdleWorker

KeyChars == {"k", "+", " "}
PathChars == {"p", "/", " "}

UrlFrame ==
  UNCHANGED <<notes, is_syncing, is_stopping, sync_cancel_event, ui_queue,
              inflight_downloads, cancel_events, store, single, tmp, dl, runs>>

InitUrlFrame ==
  /\ notes = [n \in Notes |-> NewNote("yandex")]
  /\ is_syncing = FALSE
  /\ is_stopping = FALSE
  /\ sync_cancel_event = 0
  /\ ui_queue = <<>>
  /\ inflight_downloads = {}
  /\ cancel_events = [r \in Runs |-> FALSE]
  /\ store = [n \in Notes |-> EmptyFs]
  /\ single = [n \in Notes |-> None]
  /\ tmp = NoTemp
  /\ dl = <<>>
  /\ runs = 0

PseudoUrl(key, with_path, p) ==
  Prefix \o key \o (IF with_path THEN <<":", "/">> \o p ELSE <<>>)

InitPseudo ==
  /\ \E key \in TextsUpTo(KeyChars, MaxKeyLen) \ {<<>>}, with_path \in BOOLEAN,
        p \in TextsUpTo(PathChars, MaxPathLen) :
       /\ ~with_path => p = <<>>
       /\ wk = [r \in Runs |->
                  IF r = UrlRun
                  THEN [UrlWorker EXCEPT !.pc = "parse", !.key = key, !.p = p,
                                         !.with_path = with_path,
                                         !.raw = PseudoUrl(key, with_path, p)]
                  ELSE UrlWorker]
  /\ InitUrlFrame

ParsePseudoUrl ==
  LET w == wk[UrlRun]
  IN /\ w.pc = "parse"
     /\ wk' = [wk EXCEPT ![UrlRun] =
                 [w EXCEPT !.parsed = ParseYandexPublicPseudoUrl(w.raw),
                           !.pc = "parsed"]]
     /\ UrlFrame

NextPseudo == ParsePseudoUrl

SpecPseudo == InitPseudo /\ [][NextPseudo]_vars

\* ---------------------------------------------------------------- URLs
\* urllib.parse on texts.  The characters a scheme is made of, the hexadecimal
\* digits, and the characters quote() leaves as they are.
SchemeChars == {"a", "b", "c", "d", "e", "f", "g", "h", "i", "j", "k", "l", "m", "n", "o", "p", "q", "r", "s", "t", "u", "v", "w", "x", "y", "z", "Y", "K", "P", "0", "1", "2", "3", "4", "5", "6", "7", "8", "9", "+", "-", "."}
HexDigits == {"0", "1", "2", "3", "4", "5", "6", "7", "8", "9", "a", "b", "c", "d", "e", "f", "A", "B", "C", "D", "E", "F"}
Unreserved == {"a", "b", "c", "d", "e", "f", "g", "h", "i", "j", "k", "l", "m", "n", "o", "p", "q", "r", "s", "t", "u", "v", "w", "x", "y", "z", "Y", "K", "P", "R", "U", "0", "1", "2", "3", "4", "5", "6", "7", "8", "9", "-", ".", "_", "~"}

\* The character of the escape %h1h2; the table holds every escape that the
\* texts drawn below, and their quoted forms, can contain.
Unhex(h1, h2) ==
  CASE <<h1, h2>> = <<"2", "5">> -> "%"
    [] <<h1, h2>> = <<"2", "2">> -> "\""
    [] <<h1, h2>> = <<"5", "2">> -> "R"
    [] <<h1, h2>> = <<"5", "5">> -> "U"
    [] <<h1, h2>> = <<"3", "A">> -> ":"
    [] <<h1, h2>> = <<"2", "F">> -> "/"
    [] <<h1, h2>> = <<"2", "B">> -> "+"
    [] <<h1, h2>> = <<"3", "F">> -> "?"
    [] <<h1, h2>> = <<"2", "0">> -> " "

\* urllib.parse.unquote: every %XX with two hexadecimal digits is decoded.
RECURSIVE Unquote(_)
Unquote(s) ==
  With(s, LAMBDA t :
    IF t = <<>> THEN <<>>
    ELSE IF Head(t) = "%" /\ Len(t) >= 3 /\ t[2] \in HexDigits /\ t[3] \in HexDigits
         THEN <<Unhex(t[2], t[3])>> \o Unquote(SubSeq(t, 4, Len(t)))
         ELSE <<Head(t)>> \o Unquote(Tail(t)))

\* parse_qs decodes names and values with unquote after turning "+" into " ".
UnquotePlus(s) == Unquote(Replace(s, "+", " "))

\* urllib.parse.quote(s, safe=""): the percent-encoding of a query value.
Escape(c) ==
  CASE c = "%" -> <<"%", "2", "5">>
    [] c = ":" -> <<"%", "3", "A">>
    [] c = "/" -> <<"%", "2", "F">>
    [] c = "+" -> <<"%", "2", "B">>
    [] c = "?" -> <<"%", "3", "F">>
    [] c = " " -> <<"%", "2", "0">>
    [] c = "\"" -> <<"%", "2", "2">>

RECURSIVE Quote(_)
Quote(s) ==
  With(s, LAMBDA t :
    IF t = <<>> THEN <<>>
    ELSE (IF Head(t) \in Unreserved THEN <<Head(t)>> ELSE Escape(Head(t)))
         \o Quote(Tail(t)))

\* str.split(sep) for a separator of one character.
RECURSIVE SplitChar(_, _)
SplitChar(s, sep) ==
  With(s, LAMBDA t :
    With(Find(t, <<sep>>), LAMBDA at :
      IF at = 0 THEN <<t>>
      ELSE <<SubSeq(t, 1, at - 1)>> \o SplitChar(SubSeq(t, at + 1, Len(t)), sep)))

\* (parse_qs(query).get(name) or [None])[0]: the first non-blank value of the
\* field name; <<>> stands for None (parse_qs drops blank values).
QueryGet(query, name) ==
  LET NameOf(f) == UnquotePlus(SubSeq(f, 1, Find(f, <<"=">>) - 1))
      ValueOf(f) == UnquotePlus(SubSeq(f, Find(f, <<"=">>) + 1, Len(f)))
  IN With(SplitChar(query, "&"), LAMBDA fields :
       With({ i \in 1..Len(fields) :
                /\ Find(fields[i], <<"=">>) > 0
                /\ NameOf(fields[i]) = name
                /\ ValueOf(fields[i]) # <<>> },
            LAMBDA hits :
              IF hits = {} THEN <<>>
              ELSE ValueOf(fields[CHOOSE i \in hits : \A j \in hits : i <= j])))

\* urllib.parse.urlparse: scheme (lower-cased), netloc, path, query, fragment.
UrlParse(url) ==
  With(Find(url, <<":">>), LAMBDA colon :
  With(colon > 1 /\ \A i \in 1..(colon - 1) : url[i] \in SchemeChars,
       LAMBDA has_scheme :
  With(IF has_scheme THEN SubSeq(url, colon + 1, Len(url)) ELSE url, LAMBDA rest :
  With(StartsWith(rest, <<"/", "/">>), LAMBDA has_netloc :
  With(IF has_netloc THEN SubSeq(rest, 3, Len(rest)) ELSE rest, LAMBDA after :
  With({ i \in 1..Len(after) : after[i] \in {"/", "?", "#"} }, LAMBDA stops :
  With(IF ~has_netloc THEN 1
       ELSE IF stops = {} THEN Len(after) + 1
       ELSE CHOOSE i \in stops : \A j \in stops : i <= j,
       LAMBDA cut :
  With(SubSeq(after, cut, Len(after)), LAMBDA tail :
  With(Find(tail, <<"#">>), LAMBDA hash :
  With(IF hash = 0 THEN tail ELSE SubSeq(tail, 1, hash - 1), LAMBDA before_hash :
  With(Find(before_hash, <<"?">>), LAMBDA mark :
    [scheme |-> IF has_scheme THEN Lower(SubSeq(url, 1, colon - 1)) ELSE <<>>,
     netloc |-> SubSeq(after, 1, cut - 1),
     path |-> IF mark = 0 THEN before_hash ELSE SubSeq(before_hash, 1, mark - 1),
     query |-> IF mark = 0 THEN <<>>
               ELSE SubSeq(before_hash, mark + 1, Len(before_hash)),
     fragment |-> IF hash = 0 THEN <<>>
                  ELSE SubSeq(tail, hash + 1, Len(tail))])))))))))))

\* ParseResult.geturl(): an empty query or fragment is not written back.
GetUrl(u) ==
  (IF u.scheme # <<>> THEN u.scheme \o <<":">> ELSE <<>>)
  \o (IF u.netloc # <<>> THEN <<"/", "/">> \o u.netloc ELSE <<>>)
  \o u.path
  \o (IF u.query # <<>> THEN <<"?">> \o u.query ELSE <<>>)
  \o (IF u.fragment # <<>> THEN <<"#">> \o u.fragment ELSE <<>>)

\* ParseResult.hostname: the netloc without user information and port, lower-cased.
Hostname(netloc) ==
  With(Find(netloc, <<"@">>), LAMBDA at :
  With(IF at = 0 THEN netloc ELSE SubSeq(netloc, at + 1, Len(netloc)),
       LAMBDA hostport :
  With(Find(hostport, <<":">>), LAMBDA colon :
    Lower(IF colon = 0 THEN hostport ELSE SubSeq(hostport, 1, colon - 1)))))

Https == <<"h", "t", "t", "p", "s">>
Http == <<"h", "t", "t", "p">>
YaDiskPublic == <<"y", "a", "-", "d", "i", "s", "k", "-", "p", "u", "b", "l", "i", "c">>

\* _parse_url: ok is FALSE where it raises DownloadError("Invalid URL").
ParseUrl(value) ==
  With(UrlParse(value), LAMBDA first :
  With(IF first.scheme = <<>> THEN UrlParse(Https \o <<":", "/", "/">> \o value)
       ELSE first,
       LAMBDA parsed :
    [ok |-> /\ parsed.scheme \in {Http, Https, YaDiskPublic}
            /\ (parsed.scheme \in {Http, Https} => parsed.netloc # <<>>),
     url |-> parsed]))

Contains(s, part) == Find(s, part) > 0

RECURSIVE ResolveYandexPublicResource(_, _)
ResolveYandexPublicResource(source_url, depth) ==
  With(source_url, LAMBDA url :
  With(ParseYandexPublicPseudoUrl(GetUrl(url)), LAMBDA parsed_pseudo :
  With(Hostname(url.netloc), LAMBDA host :
  With(QueryGet(url.query, <<"u", "r", "l">>), LAMBDA wrapped :
  With(Unquote(wrapped), LAMBDA decoded :
  With(ParseYandexPublicPseudoUrl(decoded), LAMBDA parsed :
    IF depth > 5 THEN NoResource
    ELSE IF parsed_pseudo.found THEN parsed_pseudo
    ELSE IF Contains(host, <<"d", "o", "c", "s", ".", "y", "a", "n", "d", "e", "x">>)
    THEN IF wrapped = <<>> THEN Resource(GetUrl(url), FALSE, <<>>)
         ELSE IF parsed.found THEN parsed
         ELSE With(ParseUrl(decoded), LAMBDA nested :
                IF ~nested.ok THEN NoResource
                ELSE ResolveYandexPublicResource(nested.url, depth + 1))
    ELSE IF \/ Contains(host, <<"y", "a", "d", "i", ".", "s", "k">>)
            \/ Contains(host, <<"d", "i", "s", "k", ".", "y", "a", "n", "d", "e", "x">>)
            \/ Contains(host, <<"d", "i", "s", "k", ".", "3", "6", "0", ".", "y", "a", "n", "d", "e", "x">>)
    THEN Resource(GetUrl(url), FALSE, <<>>)
    ELSE NoResource))))))

\* --------------------------- _resolve_yandex_public_resource on drawn inputs
\* The pseudo-URL U is resolved as it is, and as the value of "url" of a
\* docs.yandex.ru viewer link that carries it percent-encoded.
ResolveKeyChars == {"k", "+"}
ResolvePathChars == {"p", "/", "%", "2", "5", "?"}

DocsUrl(u) == <<"h", "t", "t", "p", "s", ":", "/", "/", "d", "o", "c", "s", ".", "y", "a", "n", "d", "e", "x", ".", "r", "u", "/", "d", "o", "c", "s", "/", "v", "i", "e", "w", "?", "u", "r", "l", "=">> \o Quote(u) \o <<"&", "n", "a", "m", "e", "=", "f", "i", "l", "e", ".", "p", "d", "f">>

InitResolve ==
  /\ \E key \in TextsUpTo(ResolveKeyChars, MaxKeyLen) \ {<<>>}, with_path \in BOOLEAN,
        p \in TextsUpTo(ResolvePathChars, MaxPathLen) :
       /\ ~with_path => p = <<>>
       /\ wk = [r \in Runs |->
                  IF r = UrlRun
                  THEN [UrlWorker EXCEPT
                          !.pc = "resolve", !.key = key, !.p = p,
                          !.with_path = with_path,
                          !.raw = PseudoUrl(key, with_path, p),
                          !.wrapped = DocsUrl(PseudoUrl(key, with_path, p))]
                  ELSE UrlWorker]
  /\ InitUrlFrame

\* _resolve_yandex_public_resource(_parse_url(url)); None also when _parse_url raises.
ResolveText(url) ==
  With(ParseUrl(url), LAMBDA source :
    IF source.ok THEN ResolveYandexPublicResource(source.url, 0) ELSE NoResource)

ResolveWrapped ==
  LET w == wk[UrlRun]
  IN /\ w.pc = "resolve"
     /\ wk' = [wk EXCEPT ![UrlRun] =
                 [w EXCEPT !.parsed = ResolveText(w.wrapped), !.pc = "wrapped"]]
     /\ UrlFrame

ResolveDirect ==
  LET w == wk[UrlRun]
  IN /\ w.pc = "wrapped"
     /\ wk' = [wk EXCEPT ![UrlRun] =
                 [w EXCEPT !.direct = ResolveText(w.raw), !.pc = "resolved"]]
     /\ UrlFrame

NextResolve ==
  \/ ResolveWrapped
  \/ ResolveDirect

SpecResolve == InitResolve /\ [][NextResolve]_vars

\* ----------------------------------- _make_safe_relative_path on drawn inputs
\* The remote path of a listed file and the folder's own path, as the texts the
\* server sends; a segment is the string of its characters.
MaxRemoteLen == 5
MaxRootLen == 2
PathTextChars == {"a", "b", "/", "."}

RECURSIVE Str(_)
Str(cs) == IF cs = <<>> THEN "" ELSE Head(cs) \o Str(Tail(cs))

\* path.split("/")
PathSplit(path) ==
  LET parts == SplitChar(path, "/")
  IN [i \in 1..Len(parts) |-> Str(parts[i])]

\* "/".join(relative) of _make_safe_relative_path(remote_path, root_path)
MakeSafeRelativePathText(remote_path, root_path) ==
  PathStr(MakeSafeRelativePath(PathSplit(remote_path), PathSplit(root_path)))

InitPath ==
  /\ \E remote_path \in TextsUpTo(PathTextChars, MaxRemoteLen),
        root_path \in TextsUpTo(PathTextChars, MaxRootLen) :
       wk = [r \in Runs |->
               IF r = UrlRun
               THEN [UrlWorker EXCEPT !.pc = "path", !.raw = remote_path,
                                      !.p = root_path]
               ELSE UrlWorker]
  /\ InitUrlFrame

\* local_path = self._make_safe_relative_path(remote_path, folder_path)
MakeLocalPath ==
  LET w == wk[UrlRun]
  IN /\ w.pc = "path"
     /\ wk' = [wk EXCEPT ![UrlRun] =
                 [w EXCEPT !.relative = MakeSafeRelativePathText(w.raw, w.p),
                           !.pc = "made"]]
     /\ UrlFrame

NextPath == MakeLocalPath

SpecPath == InitPath /\ [][NextPath]_vars

\* ------------------------------------------------ sync runs on a list with groups
\* The list the user has built with "Add source" and "Add folder" (both are
\* disabled while a run is in flight): a target is a group or a source, and its
\* parent_id is None or the id of another target that is a group.
AddedFolder(parent_id) ==
  [parent_id |-> parent_id] @@
    [NewNote("") EXCEPT !.is_group = TRUE, !.status = Status("Folder")]

AddedNote(kind, parent_id) == [parent_id |-> parent_id] @@ NewNote(kind)

\* _children(parent_id)
Children(parent_id) == { n \in Notes : notes[n].parent_id = parent_id }

\* _descendant_ids(root_id): what the walk from root_id reaches, without root_id.
RECURSIVE Walk(_, _)
Walk(seen, k) ==
  IF k = 0 THEN seen
  ELSE Walk(seen \cup UNION { Children(n) : n \in seen }, k - 1)

DescendantIds(root_id) == Walk({root_id}, Cardinality(Notes)) \ {root_id}

\* _selected_sync_ids without its "and not n.is_group".
SelectedSyncIdsWithGroups(selected) ==
  IF ~notes[selected].is_group THEN <<selected>>
  ELSE SelectSeq(NoteOrder, LAMBDA n : n \in DescendantIds(selected))

\* _selected_sync_ids, selected being the selected target
SelectedSyncIds(selected) ==
  IF ~notes[selected].is_group THEN <<selected>>
  ELSE SelectSeq(NoteOrder,
                 LAMBDA n : n \in DescendantIds(selected) /\ ~notes[n].is_group)

\* _sync_selected with a target selected; without one it only shows an error.
SyncSelected ==
  \E selected \in Notes, skip_large \in BOOLEAN :
    IF SelectedSyncIds(selected) = <<>> THEN UNCHANGED vars
    ELSE StartSync(SelectedSyncIds(selected), skip_large)

InitGrp ==
  /\ \E groups \in SUBSET Notes \ {{}} :
       \E parents \in [Notes -> groups \cup {None}] :
         /\ \A n \in Notes : parents[n] # n
         /\ notes = [n \in Notes |->
                       IF n \in groups THEN AddedFolder(parents[n])
                       ELSE AddedNote(IF n = "n1" THEN "yandex" ELSE "http",
                                      parents[n])]
  /\ is_syncing = FALSE
  /\ is_stopping = FALSE
  /\ sync_cancel_event = 0
  /\ ui_queue = <<>>
  /\ inflight_downloads = {}
  /\ cancel_events = [r \in Runs |-> FALSE]
  /\ store = [n \in Notes |-> EmptyFs]
  /\ single = [n \in Notes |-> None]
  /\ tmp = NoTemp
  /\ wk = [r \in Runs |-> IdleWorker]
  /\ dl = <<>>
  /\ runs = 0

NextGrp ==
  \/ SyncSelected
  \/ SyncAll
  \/ AutoSyncTick
  \/ StopSync
  \/ ProcessUiQueue
  \/ \E r \in Runs : Worker(r)

SpecGrp == InitGrp /\ [][NextGrp]_vars

\* ------------------------------------------------------------- properties
Target(r) == wk[r].ids[wk[r].idx]
SyncPcs == {"root", "collect", "file", "f_fetch", "s_payload", "s_fetch", "root2"}
FolderPcs == {"collect", "file", "f_fetch"}

\* Worker r takes the step / the step is the return of sync_single_note to r.
Moves(r) == wk'[r] # wk[r]
Returned(r) == wk[r].pc \in SyncPcs /\ wk'[r].pc \in {"loop", "finish"}

\* r is about to return from the loop over the files and reconcile.
AtReconcile(r) == wk[r].pc = "file" /\ wk[r].k > Len(wk[r].files)
Reconciled(r) ==
  ApplyFolderSync(wk[r].copy, store[Target(r)], single[Target(r)], tmp,
                  SortByPath(wk[r].results))

PathsOf(items) == { items[i].local_relative_path : i \in 1..Len(items) }

\* C1: folder reconciliation is idempotent: whenever a reconciliation succeeds,
\* running it again on its own outcome with the same fetch results (the same
\* paths, the same staged contents) changes 0 files, removes 0 files and leaves
\* the list of synced files as the first run produced it.
C1_ReconcileIdempotent ==
  \A r \in Runs :
    AtReconcile(r) =>
      LET first == Reconciled(r)
          again == ApplyFolderSync(first.note, first.fs, first.single, tmp,
                                   SortByPath(wk[r].results))
      IN first.err = None =>
           /\ again.err = None
           /\ again.changed = 0
           /\ again.removed = 0
           /\ again.note.folder_files = first.note.folder_files

\* C2: whenever no run is in flight, a file-mode target whose record carries a
\* sha256 has, at its single-file path, a file with exactly that hash.
C2_FileModeHashMatchesDisk ==
  ~is_syncing =>
    \A n \in Notes :
      (notes[n].source_type = "file" /\ notes[n].sha256 # None) =>
        (single[n] # None /\ notes[n].sha256 = Sha256(single[n]))

\* C3: when a folder sync reconciles a target whose record lists files of an
\* earlier folder sync, every such file that is absent from the new listing is
\* afterwards not a file on disk and not in the list of synced files, and no
\* empty directory is left below the source root.
C3_StaleFilesRemoved ==
  [][\A r \in Runs :
       (AtReconcile(r) /\ Returned(r) /\ wk[r].copy.source_type = "folder") =>
         LET n == Target(r)
             stale == PathsOf(wk[r].copy.folder_files) \ PathsOf(wk[r].results)
         IN /\ \A p \in stale : ~IsFile(store'[n], p)
            /\ PathsOf(wk'[r].copy.folder_files) \cap stale = {}
            /\ \A d \in AllPaths \ {<<>>} :
                 store'[n][d] = "dir" => HasChild(store'[n], d)]_vars

\* C4: in a folder sync with skip_large set, an entry larger than the limit is
\* given no download request and is returned marked as skipped with no staged
\* file; the reconciliation leaves what is stored at its path as it was and
\* lists the entry in the resulting synced files.
C4_LargeFilesSkipped ==
  [][\A r \in Runs :
       LET w == wk[r]
           n == Target(r)
       IN /\ (/\ w.pc = "file" /\ w.k <= Len(w.files) /\ Moves(r)
              /\ ~cancel_events[r] /\ IsSkipped(w, w.files[w.k])) =>
                /\ wk'[r].pc = "file"
                /\ wk'[r].results =
                     Append(w.results, DownloadedFolderFile(w.files[w.k], None, TRUE, None))
                /\ tmp' = tmp
          /\ (AtReconcile(r) /\ Returned(r)) =>
                \A i \in 1..Len(w.results) :
                  w.results[i].was_skipped =>
                    /\ store'[n][w.results[i].local_relative_path]
                         = store[n][w.results[i].local_relative_path]
                    /\ w.results[i].local_relative_path
                         \in PathsOf(wk'[r].copy.folder_files)]_vars

\* The step polls the token (every step of a sync but the reconciliation does),
\* and SyncCancelled has been raised in the sync of r's target: at this step's
\* poll, or at the poll of a file download whose result records it.
Polls(r) == wk[r].pc \in SyncPcs /\ ~AtReconcile(r)
CancelRaised(r) ==
  \/ cancel_events[r] /\ Polls(r)
  \/ \E i \in 1..Len(wk[r].results) : wk[r].results[i].download_error = MsgCancelled

\* The step issues a network request of the folder sync of r's target.
FolderNetworkCall(r) ==
  /\ Moves(r)
  /\ \/ /\ wk[r].pc = "collect"
        /\ ~(Returned(r) /\ wk'[r].copy.status.kind = "Stopped")
     \/ /\ wk[r].pc = "file" /\ wk[r].k <= Len(wk[r].files)
        /\ ~IsSkipped(wk[r], wk[r].files[wk[r].k])
        /\ ~(Returned(r) /\ wk'[r].copy.status.kind = "Stopped")
     \/ /\ wk[r].pc = "f_fetch"
        /\ wk'[r].results[Len(wk'[r].results)].download_error # MsgCancelled

\* C5: in a folder sync, no network request is issued once the token is set; a
\* sync that ends "Stopped" leaves the files on disk as they were; and a folder
\* sync in which a poll found the token set ends with status "Stopped".
C5_CancelMidFolderSync ==
  [][\A r \in Runs :
       /\ FolderNetworkCall(r) => ~cancel_events[r]
       /\ (wk[r].pc \in FolderPcs /\ Returned(r)
             /\ wk'[r].copy.status.kind = "Stopped") =>
            (store' = store /\ single' = single)
       /\ (wk[r].pc \in FolderPcs /\ Returned(r) /\ CancelRaised(r)) =>
            wk'[r].copy.status.kind = "Stopped"]_vars

\* C6: when SyncCancelled has been raised at a poll of a target's sync (a poll
\* inside the download of one file included), the sync returns status "Stopped"
\* with last_error cleared, the run's error count is not increased, and the run
\* goes on to no other target: with the token set, the loop emits no event and
\* ends.
C6_SyncCancelledStopsRun ==
  [][\A r \in Runs :
       /\ (Returned(r) /\ CancelRaised(r)) =>
            /\ wk'[r].copy.status = Status("Stopped")
            /\ wk'[r].copy.last_error = None
            /\ wk'[r].error_count = wk[r].error_count
            /\ wk'[r].pc = "finish"
       /\ (wk[r].pc = "loop" /\ Moves(r) /\ cancel_events[r]) =>
            (wk'[r].pc = "finish" /\ ui_queue' = ui_queue)]_vars

\* C7: a sync that fails with an exception other than SyncCancelled returns
\* status "Error: <message>" and last_error = <message> (an exception of the
\* reconciliation included), the run's error count grows by exactly one for it
\* and by nothing for any other outcome, and unless the token is set the run
\* goes on with the next target, which is prechecked and synced.
C7_ErrorCountedRunContinues ==
  [][\A r \in Runs :
       /\ Returned(r) =>
            LET synced == wk'[r].copy IN
            /\ (synced.status.kind = "Error") <=> (synced.last_error # None)
            /\ synced.status.kind = "Error" =>
                 /\ synced.status.msg # ""
                 /\ synced.last_error = synced.status.msg
                 /\ wk'[r].error_count = wk[r].error_count + 1
                 /\ ~cancel_events[r] =>
                      (wk'[r].pc = "loop" /\ wk'[r].idx = wk[r].idx + 1)
            /\ synced.status.kind # "Error" =>
                 wk'[r].error_count = wk[r].error_count
            /\ (AtReconcile(r) /\ Reconciled(r).err # None) =>
                 synced.status = StatusError(Reconciled(r).err)
       /\ (/\ wk[r].pc = "loop" /\ Moves(r) /\ ~cancel_events[r]
           /\ wk[r].idx <= Len(wk[r].ids)) =>
            /\ wk'[r].pc \in SyncPcs
            /\ wk'[r].idx = wk[r].idx
            /\ ui_queue' = Append(ui_queue, Event("note_precheck", Target(r), wk[r].idx,
                                                  Len(wk[r].ids), <<>>, r))]_vars

\* A later target is being synced in a run whose earlier target failed.
C7_Witness ==
  \E r \in Runs :
    /\ wk[r].idx = 2 /\ wk[r].pc = "s_fetch" /\ wk[r].error_count = 1
    /\ ~cancel_events[r]

NFailed(results) ==
  Cardinality({ i \in 1..Len(results) : results[i].download_error # None })

\* C8: a failed download of one listed file does not end the loop over the
\* files, and when some downloads have failed the reconciliation returns
\* without last_error, with a "Folder synced" status whose failed count is the
\* number of failed downloads.
C8_FileFailureIsLocal ==
  [][\A r \in Runs :
       /\ (/\ wk[r].pc \in {"file", "f_fetch"} /\ Moves(r)
           /\ Len(wk'[r].results) = Len(wk[r].results) + 1) =>
            (wk'[r].pc = "file" /\ wk'[r].k = wk[r].k + 1)
       /\ (AtReconcile(r) /\ Returned(r) /\ NFailed(wk[r].results) > 0) =>
            /\ wk'[r].copy.last_error = None
            /\ wk'[r].copy.status.kind = "Folder synced"
            /\ wk'[r].copy.status.f = NFailed(wk[r].results)]_vars

ActiveWorkers == { r \in Runs : wk[r].pc \notin {"idle", "done"} }
RunInFlight ==
  ActiveWorkers # {} \/ \E i \in 1..Len(ui_queue) : ui_queue[i].type = "sync_finished"

\* C9: at most one sync worker is active at any time, and from the start of a run
\* until its "sync_finished" event is consumed is_syncing is set and no step
\* starts a worker.
C9_OneRunInFlight ==
  /\ [](Cardinality(ActiveWorkers) <= 1 /\ (RunInFlight => is_syncing))
  /\ [][RunInFlight =>
          (runs' = runs /\ \A r \in Runs : wk[r].pc = "idle" => wk'[r].pc = "idle")]_vars

\* A run's worker has ended and its "sync_finished" event is not consumed yet.
C9_Witness ==
  /\ is_syncing /\ ActiveWorkers = {} /\ runs = 1
  /\ \E i \in 1..Len(ui_queue) : ui_queue[i].type = "sync_finished"

\* The worker threads of "download missing file" that have not ended.
ActiveDownloads == { d \in 1..Len(dl) : dl[d].pc # "ended" }

\* C10: no two "download missing file" workers of one (target, file) pair are
\* in flight together; the pair's key is in the in-flight set while its worker
\* runs and while its "done" event waits in the queue; and no step starts a
\* worker for a pair whose key is in the set.
C10_OneDownloadPerFile ==
  /\ [](/\ \A d1, d2 \in ActiveDownloads :
             (dl[d1].note = dl[d2].note /\ dl[d1].file = dl[d2].file) => d1 = d2
        /\ \A d \in ActiveDownloads : Key(dl[d].note, dl[d].file) \in inflight_downloads
        /\ \A i \in 1..Len(ui_queue) :
             ui_queue[i].type = "missing_download_done" =>
               ui_queue[i].payload \in inflight_downloads)
  /\ [][Len(dl') > Len(dl) =>
          Key(dl'[Len(dl')].note, dl'[Len(dl')].file) \notin inflight_downloads]_vars

\* A file is downloaded a second time, the first download's "done" consumed.
C10_Witness ==
  \E d1, d2 \in 1..Len(dl) :
    /\ d1 < d2 /\ dl[d1].note = dl[d2].note /\ dl[d1].file = dl[d2].file
    /\ dl[d1].pc = "ended" /\ d2 \in ActiveDownloads
    /\ Key(dl[d2].note, dl[d2].file) \in inflight_downloads

\* The event a step puts on the queue, as <<>> or <<event>>.
Emitted ==
  IF Len(ui_queue') = Len(ui_queue) + 1
       /\ SubSeq(ui_queue', 1, Len(ui_queue)) = ui_queue
  THEN <<ui_queue'[Len(ui_queue')]>>
  ELSE <<>>

\* The step puts exactly the event of this type for r's current target.
EmitsFor(r, type) ==
  /\ Emitted # <<>>
  /\ Emitted[1].type = type /\ Emitted[1].run = r /\ Emitted[1].note = Target(r)

\* C11: a run's worker goes through its targets one at a time in list order:
\* a target's sync begins with its one "note_precheck" event, emits only
\* "folder_progress" events of that target while it runs, and ends with its one
\* "note_synced" event; between two targets nothing is emitted; the run's one
\* "sync_finished" event is emitted by the worker's last step, and only the
\* run's worker emits events of the run.
C11_EventProtocol ==
  [][\A r \in Runs :
       /\ (Emitted # <<>> /\ Emitted[1].run = r) => Moves(r)
       /\ Moves(r) =>
            LET pc == wk[r].pc
                to == wk'[r].pc
            IN /\ pc # "done"
               /\ pc = "idle" => (to = "loop" /\ wk'[r].idx = 1 /\ Emitted = <<>>)
               /\ pc = "loop" =>
                    /\ to \in SyncPcs \cup {"loop", "finish"}
                    /\ wk'[r].ids = wk[r].ids
                    /\ to \in SyncPcs =>
                         /\ EmitsFor(r, "note_precheck")
                         /\ Emitted[1].a = wk[r].idx /\ wk'[r].idx = wk[r].idx
                    /\ to \notin SyncPcs => Emitted = <<>>
               /\ pc \in SyncPcs =>
                    /\ to \in SyncPcs \cup {"loop", "finish"}
                    /\ wk'[r].ids = wk[r].ids
                    /\ to \in SyncPcs =>
                         /\ Emitted = <<>> \/ EmitsFor(r, "folder_progress")
                         /\ wk'[r].idx = wk[r].idx
                    /\ to \notin SyncPcs => EmitsFor(r, "note_synced")
                    /\ to = "loop" => wk'[r].idx = wk[r].idx + 1
               /\ pc = "finish" =>
                    /\ to = "done"
                    /\ Emitted # <<>>
                    /\ Emitted[1].type = "sync_finished" /\ Emitted[1].run = r]_vars

\* A whole run's events wait in the queue, from the first "note_precheck" to
\* the "sync_finished", with progress events of the folder in between.
C11_Witness ==
  \E r \in Runs :
    /\ wk[r].pc = "done" /\ Len(ui_queue) >= 6
    /\ ui_queue[1].type = "note_precheck" /\ ui_queue[1].run = r
    /\ ui_queue[Len(ui_queue)].type = "sync_finished"
    /\ \E i \in 1..Len(ui_queue) : ui_queue[i].type = "folder_progress"

\* C12: in every state, every non-group record of the GUI has source_type
\* "folder" exactly when its list of synced files is non-empty, and carries a
\* sha256 only when its source_type is "file".
C12_RecordInvariant ==
  \A n \in Notes :
    ~notes[n].is_group =>
      /\ (notes[n].source_type = "folder") <=> (notes[n].folder_files # <<>>)
      /\ notes[n].sha256 # None => notes[n].source_type = "file"

\* C13: the local store changes only by a successful reconciliation: a sync
\* that returns with an error or stopped leaves the source directory and the
\* single-file path of every target as they were, and a step that is not the
\* return of a sync changes neither.
C13_StoreIsLastReconciliation ==
  [][\A r \in Runs :
       /\ (Returned(r) /\ wk'[r].copy.status.kind \in {"Error", "Stopped"}) =>
            (store' = store /\ single' = single)
       /\ (\A q \in Runs : ~Returned(q)) => (store' = store /\ single' = single)]_vars

\* C14: a deleted target has no local store: nothing exists at its single-file
\* path or in its source directory, whatever the workers do afterwards.
C14_DeletedStoreStaysGone ==
  \A n \in Notes :
    notes[n] = Absent => (single[n] = None /\ store[n] = EmptyFs)

\* C15: when sync_single_note returns from the single-file branch, whether the
\* content was replaced, was unchanged, or an error was raised while hashing or
\* replacing, the temp file it staged is no longer in the temp directory.
C15_TempRemovedOnReturn ==
  wk[FileRun].pc = "returned" =>
    /\ wk[FileRun].temp_path # None
    /\ \A t \in TempIds : tmp[t] = None

\* A sync that staged a temp file, failed while replacing after the old file
\* was unlinked, and has returned with the error.
C15_Witness ==
  /\ wk[FileRun].pc = "returned"
  /\ wk[FileRun].temp_path # None
  /\ wk[FileRun].copy.status = StatusError(MsgIO)
  /\ wk[FileRun].has_changes
  /\ wk[FileRun].copy.sha256 # None
  /\ single[Target(FileRun)] = None

\* What a reconciliation of the sorted results files does, read off the store
\* and the temp directory rather than off its counters.  What is at the path of
\* files[i] when its turn comes: the bytes staged by the last earlier result of
\* the same path, else what the store held.
BeforeTurn(fs, staged, files, i) ==
  LET earlier == { j \in 1..(i - 1) :
                     /\ files[j].local_relative_path = files[i].local_relative_path
                     /\ files[j].temp_path # NoTempPath }
  IN IF earlier = {} THEN fs[files[i].local_relative_path]
     ELSE staged[files[CHOOSE j \in earlier : \A k \in earlier : k <= j].temp_path]

NReplaced(fs, staged, files) ==
  Cardinality({ i \in 1..Len(files) :
                  /\ files[i].temp_path # NoTempPath
                  /\ BeforeTurn(fs, staged, files, i) # staged[files[i].temp_path] })

NRemoved(fs, after, files) ==
  Cardinality({ p \in AllPaths :
                  IsFile(fs, p) /\ p \notin PathsOf(files) /\ after[p] = None })

NSkipped(results) ==
  Cardinality({ i \in 1..Len(results) : results[i].was_skipped })

\* The step in which the reconciliation of RecRun returns without raising.
ReconciledOk ==
  /\ wk[RecRun].pc = "file"
  /\ wk'[RecRun].pc = "returned"
  /\ wk'[RecRun].copy.last_error = None

ClaimedStatus(n, c, r, f, s) ==
  IF n = 0 THEN "Folder synced: 0 files"
  ELSE IF c # 0 \/ r # 0 \/ f # 0 \/ s # 0
  THEN "Folder synced: " \o ToString(n) \o " files (" \o ToString(c) \o " updated, "
       \o ToString(r) \o " removed, " \o ToString(f) \o " failed, " \o ToString(s)
       \o " skipped)"
  ELSE "Folder no changes: " \o ToString(n) \o " files"

\* C16: a folder reconciliation that returns, of N input entries with C files
\* replaced, R files removed, F entries failed and S entries skipped, leaves the
\* status "Folder synced: 0 files" when N = 0 whatever R is, "Folder synced: N
\* files (C updated, R removed, F failed, S skipped)" when N > 0 and one of the
\* four is nonzero, "Folder no changes: N files" otherwise; and C + F + S <= N.
C16_StatusSummarisesCounts ==
  [][ReconciledOk =>
        LET files == SortByPath(wk[RecRun].results)
            n == Len(files)
            c == NReplaced(store[RecNote], tmp, files)
            r == NRemoved(store[RecNote], store'[RecNote], files)
            f == NFailed(files)
            s == NSkipped(files)
        IN /\ StatusText(wk'[RecRun].copy.status) = ClaimedStatus(n, c, r, f, s)
           /\ c + f + s <= n]_vars

\* A reconciliation of a non-empty listing that replaced nothing, had no failed
\* and no skipped entry, and removed a file.
C16_Witness ==
  /\ wk[RecRun].pc = "returned"
  /\ wk[RecRun].copy.last_error = None
  /\ wk[RecRun].results # <<>>
  /\ wk[RecRun].copy.status.kind = "Folder synced"
  /\ wk[RecRun].copy.status.r > 0
  /\ wk[RecRun].copy.status.c = 0
  /\ NFailed(wk[RecRun].results) = 0 /\ NSkipped(wk[RecRun].results) = 0

\* The condition of C17, read off the store, the temp directory and the record.
SomethingChanged ==
  LET files == SortByPath(wk[RecRun].results)
  IN \/ NReplaced(store[RecNote], tmp, files) > 0
     \/ NRemoved(store[RecNote], store'[RecNote], files) > 0
     \/ wk[RecRun].copy.source_type # "folder"

C18_PseudoUrlParsed ==
  LET w == wk[UrlRun]
  IN w.pc = "parsed" =>
       /\ (w.with_path /\ Strip(w.p, {"/"}) # <<>>) =>
            w.parsed = Resource(Prefix \o Replace(w.key, " ", "+"), TRUE,
                                <<"/">> \o Strip(w.p, {"/"}))
       /\ (~w.with_path \/ w.p = <<>>) => ~w.parsed.has_path

\* C19: a docs.yandex.* URL whose "url" query parameter carries the pseudo-URL U
\* percent-encoded resolves to the descriptor that U itself resolves to.
C19_WrappedResolvesAsDirect ==
  wk[UrlRun].pc = "resolved" => wk[UrlRun].parsed = wk[UrlRun].direct

\* The sanitized segments of a path, read off the text: the maximal runs of
\* characters other than "/", in order, except the runs "." and "..".
RECURSIVE Segments(_, _)
Segments(text, run) ==
  LET closed == IF run \in {"", ".", ".."} THEN <<>> ELSE <<run>>
  IN IF text = <<>> THEN closed
     ELSE IF Head(text) = "/" THEN closed \o Segments(Tail(text), "")
     ELSE Segments(Tail(text), run \o Head(text))

RECURSIVE Joined(_)
Joined(segments) ==
  IF segments = <<>> THEN ""
  ELSE Head(segments) \o (IF Len(segments) > 1 THEN "/" ELSE "") \o Joined(Tail(segments))

\* C20: when the sanitized segments of the remote path start with the sanitized
\* segments of the folder's root path and go on with at least one more segment,
\* _make_safe_relative_path returns the remaining segments joined with "/".
C20_RelativePathIsRemainder ==
  LET w == wk[UrlRun]
      remote == Segments(w.raw, "")
      root == Segments(w.p, "")
  IN (/\ w.pc = "made"
      /\ Len(remote) > Len(root)
      /\ SubSeq(remote, 1, Len(root)) = root) =>
       w.relative = Joined(SubSeq(remote, Len(root) + 1, Len(remote)))

\* ("a/./b", root "/a") has given "b": the root is non-empty and was cut off.
C20_Witness ==
  /\ wk[UrlRun].pc = "made"
  /\ wk[UrlRun].raw = <<"a", "/", ".", "/", "b">>
  /\ wk[UrlRun].p = <<"/", "a">>
  /\ wk[UrlRun].relative = "b"

\* A text is a safe relative path when it is non-empty, neither starts nor ends
\* with "/", has no "//", and none of its maximal runs without "/" is "." or "..".
SegmentAt(t, i, j) ==
  /\ i = 1 \/ t[i - 1] = "/"
  /\ j = Len(t) \/ t[j + 1] = "/"
  /\ \A k \in i..j : t[k] # "/"

IsSafeText(t) ==
  /\ t # <<>>
  /\ t[1] # "/" /\ t[Len(t)] # "/"
  /\ \A i \in 1..(Len(t) - 1) : ~(t[i] = "/" /\ t[i + 1] = "/")
  /\ \A i \in 1..Len(t) : \A j \in i..Len(t) :
       SegmentAt(t, i, j) => SubSeq(t, i, j) \notin {<<".">>, <<".", ".">>}

\* The safe texts over the drawn characters, and the text of a generated uuid.
SafeTexts ==
  { Str(t) : t \in { u \in TextsUpTo(PathTextChars, MaxRemoteLen) : IsSafeText(u) } }
    \cup {Str(<<"u", "u", "i", "d">>)}

\* C21: for every remote path and every root path over "/", "." and names, the
\* path _make_safe_relative_path returns is non-empty, does not start with "/"
\* and has no empty, "." or ".." segment.
C21_RelativePathIsSafe ==
  wk[UrlRun].pc = "made" => wk[UrlRun].relative \in SafeTexts

\* ("../a/..", root "/") has given "a": the ".." segments were dropped.
C21_Witness ==
  /\ wk[UrlRun].pc = "made"
  /\ wk[UrlRun].raw = <<".", ".", "/", "a", "/">>
  /\ wk[UrlRun].p = <<"/">>
  /\ wk[UrlRun].relative = "a"

\* ("../..", no root) has no segment left and has given a generated name.
C21_WitnessFresh ==
  /\ wk[UrlRun].pc = "made"
  /\ wk[UrlRun].raw = <<".", ".", "/", ".", ".">>
  /\ wk[UrlRun].p = <<>>
  /\ wk[UrlRun].relative = "uuid"

\* C22: in a list with groups, for every run started by "sync selected", "sync
\* all" or the auto-sync timer: no group is among the targets the run is
\* started with, the engine is never working on a group, no "note_precheck",
\* "folder_progress" or "note_synced" event is put for a group, and no step
\* changes a group's record or anything on disk that belongs to a group.
C22_GroupsExcluded ==
  [][/\ \A r \in Runs :
          /\ \A i \in 1..Len(wk'[r].ids) : ~notes[wk'[r].ids[i]].is_group
          /\ wk'[r].pc \in SyncPcs => ~notes[Target(r)].is_group
          /\ ~wk'[r].copy.is_group
     /\ Emitted # <<>> /\ Emitted[1].type # "sync_finished" =>
          ~notes[Emitted[1].note].is_group
     /\ \A n \in Notes :
          notes[n].is_group =>
            /\ notes'[n] = notes[n]
            /\ store'[n] = store[n]
            /\ single'[n] = single[n]]_vars

\* "Sync selected" on a group has synced the group's one source, found through
\* the group: the run is over and the source's folder is on disk.
C22_Witness ==
  /\ notes["n2"].is_group
  /\ notes["n1"].parent_id = "n2"
  /\ notes["n1"].source_type = "folder"
  /\ store["n1"][<<"a">>] \in Contents
  /\ runs = 1 /\ ~is_syncing

\* The step of the single-file branch that replaces the destination or discards
\* the temp file, and what it decides on: the destination existed and has the
\* SHA-256 of the downloaded bytes.
SingleDecided == wk[FileRun].pc = "replace" /\ wk'[FileRun].pc = "fields"

SameOnDisk ==
  LET n == wk[FileRun].ids[wk[FileRun].idx]
  IN /\ single[n] # None
     /\ Sha256(single[n]) = Sha256(tmp[wk[FileRun].temp_path])

\* Once decided, the branch returns without an error and without touching the
\* status, last_updated_at or the destination again.
SingleCompletes ==
  (wk[FileRun].pc \in {"fields", "finally"} /\ wk[FileRun].exc = None) =>
    /\ wk'[FileRun].pc \in {"finally", "returned"}
    /\ wk'[FileRun].exc = None
    /\ wk'[FileRun].copy.status = wk[FileRun].copy.status
    /\ wk'[FileRun].copy.last_updated_at = wk[FileRun].copy.last_updated_at
    /\ single' = single
    /\ wk'[FileRun].pc = "returned" => wk'[FileRun].copy.last_error = None

\* C23 as stated: a successful single-file reconciliation ends with status "No
\* changes" exactly when a file existed at the fixed path with the SHA-256 of
\* the downloaded bytes, and then leaves the file and last_updated_at as they
\* were; otherwise the destination holds the downloaded bytes, the status is
\* "Updated" and last_updated_at has a value other than its previous one.
C23_UpdatedAdvancesStamp ==
  [][/\ SingleDecided =>
          LET w == wk[FileRun]
              n == w.ids[w.idx]
          IN /\ (wk'[FileRun].copy.status.kind = "No changes") <=> SameOnDisk
             /\ SameOnDisk =>
                  /\ single'[n] = single[n]
                  /\ wk'[FileRun].copy.last_updated_at = w.copy.last_updated_at
             /\ ~SameOnDisk =>
                  /\ single'[n] = tmp[w.temp_path]
                  /\ wk'[FileRun].copy.status.kind = "Updated"
                  /\ wk'[FileRun].copy.last_updated_at # w.copy.last_updated_at
     /\ SingleCompletes]_vars

\* C23: a successful single-file reconciliation ends with status "No changes"
\* exactly when a file existed at the fixed path with the SHA-256 of the
\* downloaded bytes, whatever hash the record held, and then leaves the file and
\* last_updated_at as they were; otherwise the destination holds the downloaded
\* bytes, the status is "Updated" and last_updated_at is the current time in
\* whole seconds.
C23_NoChangesIffSameBytes ==
  [][/\ SingleDecided =>
          LET w == wk[FileRun]
              n == w.ids[w.idx]
          IN /\ (wk'[FileRun].copy.status.kind = "No changes") <=> SameOnDisk
             /\ SameOnDisk =>
                  /\ single'[n] = single[n]
                  /\ wk'[FileRun].copy.last_updated_at = w.copy.last_updated_at
             /\ ~SameOnDisk =>
                  /\ single'[n] = tmp[w.temp_path]
                  /\ wk'[FileRun].copy.status.kind = "Updated"
                  /\ wk'[FileRun].copy.last_updated_at = NowIso(w.clock)
     /\ SingleCompletes]_vars

\* A sync that returned "No changes" for a target whose record held the hash of
\* other bytes than the ones on disk.
C23_Witness ==
  LET w == wk[FileRun]
      n == w.ids[w.idx]
  IN /\ w.pc = "returned" /\ w.copy.last_error = None
     /\ w.copy.status.kind = "No changes"
     /\ notes[n].sha256 # None
     /\ notes[n].sha256 # Sha256(single[n])
     /\ w.copy.sha256 = Sha256(single[n])

\* Sorted by local_relative_path, and one item per entry of results: every pair
\* of remote and local path is listed as often as results has it.
Listed(x) == <<x.local_relative_path, IF "relative_path" \in DOMAIN x
                                      THEN x.relative_path ELSE x.remote_path>>

OneItemPerEntry(items, results) ==
  /\ Len(items) = Len(results)
  /\ \A i \in 1..Len(results) :
       Cardinality({ j \in 1..Len(items) : Listed(items[j]) = Listed(results[i]) })
         = Cardinality({ j \in 1..Len(results) : Listed(results[j]) = Listed(results[i]) })
  /\ \A i \in 1..Len(items) : \A j \in (i + 1)..Len(items) :
       ~PathLess(items[j].local_relative_path, items[i].local_relative_path)

\* C24: when sync_single_note returns from a successful single-file
\* reconciliation, the target's folder mirror directory does not exist,
\* folder_files is empty, source_type is "file" and sha256 is the hash of the
\* downloaded bytes, which the destination holds; when it returns from a
\* successful folder reconciliation, the single-file path does not exist,
\* sha256 is cleared, source_type is "folder" and folder_files holds exactly one
\* item per input entry, sorted by local_relative_path.
C24_OtherModeRemoved ==
  [][\A r \in Runs :
       (Returned(r) /\ wk'[r].copy.last_error = None) =>
         LET n == Target(r)
             synced == wk'[r].copy
         IN /\ synced.status.kind \in {"Updated", "No changes"} =>
                 /\ store'[n][<<>>] = None
                 /\ \A q \in AllPaths : store'[n][q] = None
                 /\ synced.folder_files = <<>>
                 /\ synced.source_type = "file"
                 /\ single'[n] \in Contents
                 /\ synced.sha256 = Sha256(single'[n])
            /\ synced.status.kind \in {"Folder synced", "Folder no changes"} =>
                 /\ single'[n] = None
                 /\ synced.sha256 = None
                 /\ synced.source_type = "folder"
                 /\ OneItemPerEntry(synced.folder_files, wk[r].results)]_vars

\* A target whose record says "folder" has just been synced as a single file:
\* its mirror is gone and the file is at the single-file path.
C24_Witness ==
  \E r \in Runs :
    /\ wk[r].pc \in {"loop", "finish"}
    /\ wk[r].copy.source_type = "file" /\ wk[r].copy.last_error = None
    /\ notes["n1"].source_type = "folder"
    /\ notes["n1"].folder_files # <<>>
    /\ wk[r].copy.url = "yandex"
    /\ store["n1"][<<>>] = None
    /\ single["n1"] \in Contents

\* A target whose record says "file" has just been synced as a folder of two
\* files: the single-file path is gone.
C24_WitnessFolder ==
  \E r \in Runs :
    /\ wk[r].pc \in {"loop", "finish"}
    /\ wk[r].copy.source_type = "folder" /\ wk[r].copy.last_error = None
    /\ Len(wk[r].copy.folder_files) = 2
    /\ notes["n1"].source_type = "file"
    /\ single["n1"] = None

\* The item of the new list for the input entry x, with the hash sha.
ListedWith(items, x, sha) ==
  \E j \in 1..Len(items) :
    /\ items[j].local_relative_path = x.local_relative_path
    /\ items[j].relative_path = x.remote_path
    /\ items[j].sha256 = sha

\* C25: in a folder reconciliation, for every input entry without a staged temp
\* file (skipped or failed): a file existing at its destination is left as it
\* was and the entry is listed with that file's hash; without a file there the
\* entry is listed with the sha256 of a previous item of the same path, or with
\* "" when there is none; and the changed count is at most the number of
\* staged entries.
C25_UnstagedEntriesKept ==
  [][(wk[RecRun].pc = "file" /\ wk'[RecRun].pc = "returned") =>
       LET results == wk[RecRun].results
           previous == wk[RecRun].copy.folder_files
           items == wk'[RecRun].copy.folder_files
           fs == store[RecNote]
       IN /\ \A i \in 1..Len(results) :
               results[i].temp_path = NoTempPath =>
                 LET p == results[i].local_relative_path
                     known == { previous[j].sha256 :
                                  j \in { k \in 1..Len(previous) :
                                            previous[k].local_relative_path = p } }
                 IN IF IsFile(fs, p)
                    THEN /\ store'[RecNote][p] = fs[p]
                         /\ ListedWith(items, results[i], Sha256(fs[p]))
                    ELSE \E sha \in (IF known = {} THEN {""} ELSE known) :
                           ListedWith(items, results[i], sha)
          /\ wk'[RecRun].copy.status.kind \in {"Folder synced", "Folder no changes"} =>
               wk'[RecRun].copy.status.c
                 <= Cardinality({ i \in 1..Len(results) : results[i].temp_path # NoTempPath })]_vars

\* ---------------------------------------------------------------------------
\* NotesDownloader.download_source at the granularity of single network
\* requests: every _check_cancel poll and every urlopen is a step of its own,
\* and the server answers each request with any status and any kind of body.
\* ---------------------------------------------------------------------------
NetRun == FileRun
NetKinds == {"yandex", "gdrive", "gdocs", "dropbox", "github", "generic"}
Statuses == {199, 200, 299, 300, 404}
\* kinds of response body:
\*   "bytes"      bytes that are not UTF-8 (a PDF, an archive)
\*   "text"       UTF-8 text that is neither JSON nor HTML
\*   "html"       an HTML page without a confirmation token
\*   "html_token" an HTML page (or cookie) carrying a confirmation token
\*   "list"       JSON that is not an object and is truthy, like [1]
\*   "null"       JSON that is not an object and is falsy, like null or []
\*   "href"       a JSON object with a non-empty "href"
\*   "object"     a JSON object with neither "href" nor "type"
\*   "file"       a JSON object of type "file"
\*   "dir", "dir_f", "dir_d", "dir_fd"
\*                a JSON object of type "dir" whose items are: nothing, one
\*                file, one directory, one file and one directory
ContentBodies == {"bytes", "html", "html_token"}
PayloadBodies == {"bytes", "text", "list", "null", "href", "object"}
ResourceBodies == {"bytes", "text", "list", "null", "file", "object",
                   "dir", "dir_f", "dir_d", "dir_fd"}
NoResp == [status |-> 0, body |-> None]
MaxNetFiles == 2
DepthLimit == 8

IsOk(status) == ~(status < 200 \/ status >= 300)
IsObject(body) == body \in {"href", "object", "file", "dir", "dir_f", "dir_d", "dir_fd"}
IsTruthy(body) == body = "list" \/ IsObject(body)
TypeOf(body) ==
  IF body \in {"dir", "dir_f", "dir_d", "dir_fd"} THEN "dir"
  ELSE IF body = "file" THEN "file" ELSE None
ItemFiles(body) == IF body \in {"dir_f", "dir_fd"} THEN 1 ELSE 0
ItemDirs(body) == IF body \in {"dir_d", "dir_fd"} THEN 1 ELSE 0
\* json.loads(data.decode("utf-8")): the exception it raises, or None
JsonLoadsError(body) ==
  IF body = "bytes" THEN "UnicodeDecodeError"
  ELSE IF body \in {"text", "html", "html_token"} THEN "JSONDecodeError"
  ELSE None
LooksLikeHtml(resp) == resp.body \in {"html", "html_token"}
ExtractGoogleDriveToken(resp) == resp.body = "html_token"

\* the entries of a folder listing: mime_type and name as texts, and whether
\* size exceeds max_file_size_bytes
Entry(mime_type, name, large) == [mime_type |-> mime_type, name |-> name, large |-> large]
NoEntry == Entry(<<>>, <<>>, FALSE)
NetEntries ==
  {Entry(<<"v", "i", "d", "e", "o", "/", "x">>, <<"a", ".", "x">>, FALSE),
   Entry(<<"V", "i", "d", "e", "o", "/">>, <<>>, FALSE),
   Entry(<<"x", "v", "i", "d", "e", "o", "/">>, <<>>, FALSE),
   Entry(<<"v", "i", "d", "e", "o">>, <<"t", "s">>, FALSE),
   Entry(<<>>, <<"a", ".", "t", "s">>, FALSE),
   Entry(<<>>, <<"a", ".", "T", "s">>, TRUE),
   Entry(<<>>, <<".", "t", "s">>, FALSE),
   Entry(<<>>, <<"a", ".", "t", "s", ".", "x">>, FALSE),
   Entry(<<>>, <<"a", ".", "x", ".", "t", "s">>, FALSE),
   Entry(<<>>, <<"a", ".", "t", "s", ".">>, FALSE),
   Entry(<<>>, <<"a", ".", ".", "t", "s">>, FALSE),
   Entry(<<"x">>, <<"a", ".", "x">>, TRUE),
   Entry(<<"x">>, <<"a", ".", "x">>, FALSE)}
VIDEO_EXTENSIONS ==
  {<<"3", "g", "p">>, <<"a", "v", "i">>, <<"f", "l", "v">>, <<"m", "2", "t", "s">>,
   <<"m", "4", "v">>, <<"m", "k", "v">>, <<"m", "o", "v">>, <<"m", "p", "4">>,
   <<"m", "p", "e", "g">>, <<"m", "p", "g">>, <<"m", "t", "s">>, <<"o", "g", "v">>,
   <<"t", "s">>, <<"w", "e", "b", "m">>, <<"w", "m", "v">>}

LowerNetChar(c) == CASE c = "T" -> "t" [] c = "V" -> "v" [] OTHER -> c
LowerNet(s) == [i \in 1..Len(s) |-> LowerNetChar(s[i])]
\* PurePath(name).suffix: from the last dot of the name, when that dot is
\* neither the first nor the last character
Suffix(name) ==
  LET dots == { i \in 1..Len(name) : name[i] = "." }
  IN IF dots = {} THEN <<>>
     ELSE LET i == CHOOSE i \in dots : \A j \in dots : j <= i
          IN IF 1 < i /\ i < Len(name) THEN SubSeq(name, i, Len(name)) ELSE <<>>
IsVideoEntryByMime(entry) == StartsWith(LowerNet(entry.mime_type), <<"v", "i", "d", "e", "o", "/">>)
IsVideoEntry(entry) ==
  \/ StartsWith(LowerNet(entry.mime_type), <<"v", "i", "d", "e", "o", "/">>)
  \/ LStrip(Suffix(LowerNet(entry.name)), {"."}) \in VIDEO_EXTENSIONS

\* the frame of the downloading thread: the position in download_source and
\* the functions it calls (pc, with the return positions and the enclosing try
\* blocks in stack), the response in hand, and what the observer records:
\*   last / polled / seen_set  what the thread's last step was, the token's
\*                             value at its last poll, and whether any poll of
\*                             the download saw the token set
\*   att                       the attempts of the current download-link
\*                             request
\*   requested                 whether a request was issued in the current
\*                             iteration over the folder's files
NetWorker ==
  [kind |-> "generic", skip_video |-> FALSE, stack |-> <<>>, resp |-> NoResp,
   value |-> None, with_path |-> FALSE, att |-> 0, depth |-> 0, nfiles |-> 0,
   entry |-> NoEntry, requested |-> FALSE, outcome |-> None, last |-> None,
   polled |-> FALSE, seen_set |-> FALSE] @@ IdleWorker

NetStep(w) ==
  /\ wk' = [wk EXCEPT ![NetRun] = w]
  /\ UNCHANGED <<notes, is_syncing, is_stopping, sync_cancel_event, ui_queue,
                 inflight_downloads, cancel_events, store, single, tmp, dl, runs>>

NetGoto(w, pc) == [w EXCEPT !.pc = pc, !.last = "other"]
NetCall(w, pc, ret) == [w EXCEPT !.pc = pc, !.stack = <<ret>> \o w.stack, !.last = "other"]
NetReturn(w) == [w EXCEPT !.pc = Head(w.stack), !.stack = Tail(w.stack), !.last = "other"]
\* raise: control passes to the innermost enclosing try block that catches the
\* exception ("try_file" is the folder loop's "except Exception", "try_single"
\* is _download_from_yandex's "except DownloadError"), else out of the download
NetRaise(w, exc) ==
  LET hs == { i \in 1..Len(w.stack) :
                \/ w.stack[i] = "try_file"
                \/ w.stack[i] = "try_single" /\ exc = "DownloadError" }
  IN IF hs = {}
     THEN [w EXCEPT !.pc = "done", !.stack = <<>>, !.exc = exc, !.outcome = exc,
                    !.last = "other"]
     ELSE LET i == CHOOSE i \in hs : \A j \in hs : i <= j
          IN [w EXCEPT !.pc = IF w.stack[i] = "try_file" THEN "file_except"
                              ELSE "single_except",
                       !.stack = SubSeq(w.stack, i + 1, Len(w.stack)),
                       !.exc = exc, !.last = "other"]

Polled(w) ==
  [w EXCEPT !.last = "poll", !.polled = cancel_events[NetRun],
            !.seen_set = w.seen_set \/ cancel_events[NetRun]]
CheckCancelIgnored(w, then) == Polled(then)
\* _check_cancel, followed by the code after it
CheckCancel(w, then) ==
  IF cancel_events[NetRun]
  THEN Polled(NetRaise(w, "SyncCancelled"))
  ELSE Polled(then)

\* download_source: the poll, then the choice of the fetcher
DownloadSource ==
  LET w == wk[NetRun]
  IN /\ w.pc = "download_source"
     /\ NetStep(CheckCancel(w,
          IF w.kind = "yandex"
          THEN NetCall(w, "fetch_resource", "root")
          ELSE IF w.kind \in {"gdrive", "gdocs"}
          THEN NetGoto(w, "google_drive")
          ELSE NetCall(w, "fetch_bytes", "write_single")))

\* download_source's last two lines: _write_temp_file(data) and the return
WriteSingle ==
  LET w == wk[NetRun]
  IN /\ w.pc = "write_single"
     /\ NetStep([NetGoto(w, "done") EXCEPT !.resp = NoResp, !.outcome = "single"])

\* _fetch_bytes: _fetch_bytes_and_response, then the status check
NetFetchBytes ==
  LET w == wk[NetRun]
  IN \/ /\ w.pc = "fetch_bytes"
        /\ NetStep(NetCall(w, "fetch_bytes_and_response", "fetch_status"))
     \/ /\ w.pc = "fetch_status"
        /\ NetStep(IF ~IsOk(w.resp.status)
                   THEN NetRaise([w EXCEPT !.resp = NoResp], "DownloadError")
                   ELSE NetReturn(w))

\* the server's answers to the request the thread is about to send
Answers(w) ==
  LET bodies == IF Head(w.stack) = "attempt_got" THEN PayloadBodies
                ELSE IF Head(w.stack) = "resource_got"
                THEN { b \in ResourceBodies :
                         w.nfiles + ItemFiles(b) + (IF b = "file" THEN 1 ELSE 0)
                           <= MaxNetFiles }
                ELSE ContentBodies
  IN [status : Statuses, body : bodies]

\* _fetch_bytes_and_response: the poll, then urlopen, which returns the
\* response (HTTPError included) or raises URLError, turned into DownloadError
FetchBytesAndResponse ==
  LET w == wk[NetRun]
  IN \/ /\ w.pc = "fetch_bytes_and_response"
        /\ NetStep(CheckCancel(w, NetGoto(w, "urlopen")))
     \/ /\ w.pc = "urlopen"
        /\ \/ \E resp \in Answers(w) :
                NetStep([NetReturn(w) EXCEPT !.resp = resp, !.last = "request",
                                             !.requested = TRUE])
           \/ NetStep([NetRaise(w, "DownloadError") EXCEPT !.last = "request",
                                                           !.requested = TRUE])

\* _download_from_google_drive
DownloadFromGoogleDrive ==
  LET w == wk[NetRun]
  IN \/ /\ w.pc = "google_drive"
        /\ NetStep(CheckCancel(w,
             IF w.kind = "gdocs"
             THEN NetCall(w, "fetch_bytes", "write_single")
             ELSE NetCall(w, "fetch_bytes_and_response", "first_data")))
     \/ /\ w.pc = "first_data"
        /\ NetStep(IF ~LooksLikeHtml(w.resp) THEN NetGoto(w, "write_single")
                   ELSE IF ~ExtractGoogleDriveToken(w.resp)
                   THEN NetRaise([w EXCEPT !.resp = NoResp], "DownloadError")
                   ELSE NetCall([w EXCEPT !.resp = NoResp],
                                "fetch_bytes_and_response", "second_data"))
     \/ /\ w.pc = "second_data"
        /\ NetStep(IF LooksLikeHtml(w.resp)
                   THEN NetRaise([w EXCEPT !.resp = NoResp], "DownloadError")
                   ELSE NetGoto(w, "write_single"))

\* _fetch_yandex_public_resource: the poll, the request, then the status check
\* and json.loads, of which only JSONDecodeError is caught
NetFetchYandexPublicResource ==
  LET w == wk[NetRun]
      v == [w EXCEPT !.resp = NoResp]
  IN \/ /\ w.pc = "fetch_resource"
        /\ NetStep(CheckCancel(w,
             NetCall(w, "fetch_bytes_and_response", "resource_got")))
     \/ /\ w.pc = "resource_got"
        /\ NetStep(IF w.resp.status = 404
                   THEN NetReturn([v EXCEPT !.value = None])
                   ELSE IF ~IsOk(w.resp.status) THEN NetRaise(v, "DownloadError")
                   ELSE IF JsonLoadsError(w.resp.body) = "JSONDecodeError"
                   THEN NetRaise(v, "DownloadError")
                   ELSE IF JsonLoadsError(w.resp.body) # None
                   THEN NetRaise(v, JsonLoadsError(w.resp.body))
                   ELSE NetReturn([v EXCEPT !.value = w.resp.body]))

\* _download_yandex_folder_files starts with the listing of the folder
StartFolder(w) == [NetGoto(w, "collect") EXCEPT !.value = None, !.depth = 0,
                                                 !.nfiles = 0, !.k = 1]

\* the "try" of _download_from_yandex around the single download
TrySingle(w, path) ==
  [NetCall(w, "yandex_resource", "yandex_single") EXCEPT
     !.stack = <<"yandex_single", "try_single">> \o w.stack,
     !.with_path = path]

\* _download_from_yandex: the root resource decides between the folder and the
\* single file; a DownloadError of the single download leads to a second look
\* at the root without a path
DownloadFromYandex ==
  LET w == wk[NetRun]
      v == [w EXCEPT !.value = None]
  IN \/ /\ w.pc = "root"
        /\ \E path \in BOOLEAN :
             NetStep(IF w.value = None \/ ~IsTruthy(w.value) THEN TrySingle(v, path)
                     ELSE IF ~IsObject(w.value) THEN NetRaise(v, "AttributeError")
                     ELSE IF TypeOf(w.value) = "dir" THEN StartFolder(w)
                     ELSE TrySingle(v, path))
     \/ /\ w.pc = "yandex_single"
        /\ NetStep([NetGoto(w, "write_single") EXCEPT !.stack = Tail(w.stack)])
     \/ /\ w.pc = "single_except"
        /\ NetStep(NetCall(w, "fetch_resource", "root_again"))
     \/ /\ w.pc = "root_again"
        /\ NetStep(IF w.value = None \/ ~IsTruthy(w.value)
                   THEN NetRaise(v, "DownloadError")
                   ELSE IF ~IsObject(w.value) THEN NetRaise(v, "AttributeError")
                   ELSE IF TypeOf(w.value) = "dir" THEN StartFolder(w)
                   ELSE NetRaise(v, "DownloadError"))

\* _download_from_yandex_resource: the poll, the download link, then the
\* content behind its href
NetDownloadFromYandexResource ==
  LET w == wk[NetRun]
  IN \/ /\ w.pc = "yandex_resource"
        /\ NetStep(CheckCancel(w,
             [NetGoto(w, "attempt") EXCEPT !.att = 1]))
     \/ /\ w.pc = "href"
        /\ NetStep(NetGoto(w, "fetch_bytes"))

\* _request_yandex_download_payload: an attempt without result is followed by
\* one more attempt without the path, when a path was given, else DownloadError
RequestYandexDownloadPayload(w) ==
  IF w.att = 1 /\ w.with_path
  THEN [NetGoto(w, "attempt") EXCEPT !.att = 2]
  ELSE NetRaise(w, "DownloadError")

\* _request_yandex_download_payload_attempt: the poll, the request, then the
\* status check, json.loads and payload.get("href")
RequestYandexDownloadPayloadAttempt ==
  LET w == wk[NetRun]
      v == [w EXCEPT !.resp = NoResp]
  IN \/ /\ w.pc = "attempt"
        /\ NetStep(CheckCancel(w,
             NetCall(w, "fetch_bytes_and_response", "attempt_got")))
     \/ /\ w.pc = "attempt_got"
        /\ NetStep(IF w.resp.status = 404 THEN RequestYandexDownloadPayload(v)
                   ELSE IF ~IsOk(w.resp.status)
                   THEN NetRaise(v, "DownloadError")
                   ELSE IF JsonLoadsError(w.resp.body) = "JSONDecodeError"
                   THEN NetRaise(v, "DownloadError")
                   ELSE IF JsonLoadsError(w.resp.body) # None
                   THEN NetRaise(v, JsonLoadsError(w.resp.body))
                   ELSE IF ~IsObject(w.resp.body)
                   THEN NetRaise(v, "AttributeError")
                   ELSE IF w.resp.body = "href"
                   THEN NetGoto(v, "href")
                   ELSE RequestYandexDownloadPayload(v))

DepthExceededEarly(depth) == depth >= DepthLimit
DepthExceeded(depth) == depth > DepthLimit

\* _collect_yandex_files: the poll, the depth guard, the listing request, then
\* the items: files are collected, a directory is listed one level deeper
NetCollectYandexFiles ==
  LET w == wk[NetRun]
      v == [w EXCEPT !.value = None, !.depth = 0]
  IN \/ /\ w.pc = "collect"
        /\ NetStep(CheckCancel(w,
             IF DepthExceeded(w.depth) THEN NetGoto([w EXCEPT !.depth = 0], "loop")
             ELSE NetCall(w, "fetch_resource", "collect_got")))
     \/ /\ w.pc = "collect_got"
        /\ NetStep(IF w.value = None \/ ~IsTruthy(w.value) THEN NetGoto(v, "loop")
                   ELSE IF ~IsObject(w.value) THEN NetRaise(v, "AttributeError")
                   ELSE IF TypeOf(w.value) = "file"
                   THEN [NetGoto(v, "loop") EXCEPT !.nfiles = w.nfiles + 1]
                   ELSE IF TypeOf(w.value) # "dir" THEN NetGoto(v, "loop")
                   ELSE IF ItemDirs(w.value) = 1
                   THEN [NetGoto(v, "collect") EXCEPT
                           !.nfiles = w.nfiles + ItemFiles(w.value),
                           !.depth = w.depth + 1]
                   ELSE [NetGoto(v, "loop") EXCEPT
                           !.nfiles = w.nfiles + ItemFiles(w.value)])

\* _download_yandex_folder_files: each iteration over the files polls, then
\* skips the entry or downloads it inside "try ... except Exception"
NetDownloadYandexFolderFiles ==
  LET w == wk[NetRun]
      next == [w EXCEPT !.k = w.k + 1, !.resp = NoResp]
  IN \/ /\ w.pc = "loop" /\ w.k > w.nfiles
        /\ NetStep([NetGoto(w, "done") EXCEPT !.outcome = "folder"])
     \/ /\ w.pc = "loop" /\ w.k <= w.nfiles
        /\ \E entry \in NetEntries :
             NetStep(CheckCancel(w,
               LET e == [w EXCEPT !.entry = entry, !.requested = FALSE]
               IN IF \/ e.skip_video /\ IsVideoEntry(entry)
                     \/ e.skip_large /\ entry.large
                  THEN [NetGoto(e, "loop") EXCEPT !.k = w.k + 1,
                                                  !.results = Append(w.results, TRUE)]
                  ELSE [NetCall(e, "yandex_resource", "file_data") EXCEPT
                          !.stack = <<"file_data", "try_file">> \o w.stack,
                          !.with_path = TRUE]))
     \/ /\ w.pc = "file_data"
        /\ NetStep([NetGoto(next, "loop") EXCEPT !.stack = Tail(w.stack),
                                                 !.results = Append(w.results, FALSE)])
     \/ /\ w.pc = "file_except"
        /\ NetStep([NetGoto(next, "loop") EXCEPT !.exc = None,
                                                 !.results = Append(w.results, FALSE)])

InitNet ==
  /\ \E kind \in NetKinds, skip_video, skip_large \in BOOLEAN :
       /\ kind # "yandex" => ~skip_video /\ ~skip_large
       /\ wk = [r \in Runs |->
                  IF r = NetRun
                  THEN [NetWorker EXCEPT !.pc = "download_source", !.kind = kind,
                                         !.skip_video = skip_video,
                                         !.skip_large = skip_large]
                  ELSE NetWorker]
  /\ notes = [n \in Notes |-> NewNote("http")]
  /\ is_syncing = TRUE
  /\ is_stopping = FALSE
  /\ sync_cancel_event = NetRun
  /\ ui_queue = <<>>
  /\ inflight_downloads = {}
  /\ cancel_events = [r \in Runs |-> FALSE]
  /\ store = [n \in Notes |-> EmptyFs]
  /\ single = [n \in Notes |-> None]
  /\ tmp = NoTemp
  /\ dl = <<>>
  /\ runs = 1

NextNet ==
  \/ StopSync
  \/ DownloadSource
  \/ WriteSingle
  \/ NetFetchBytes
  \/ FetchBytesAndResponse
  \/ DownloadFromGoogleDrive
  \/ NetFetchYandexPublicResource
  \/ DownloadFromYandex
  \/ NetDownloadFromYandexResource
  \/ RequestYandexDownloadPayloadAttempt
  \/ NetCollectYandexFiles
  \/ NetDownloadYandexFolderFiles

SpecNet == InitNet /\ [][NextNet]_vars

\* ---- properties of the request-level download ----

\* the step taken by the downloading thread leaves _request_yandex_download_
\* payload_attempt's handling of a response
AttemptAnswered == wk[NetRun].pc = "attempt_got" /\ wk'[NetRun] # wk[NetRun]
CarriesHref(resp) == IsOk(resp.status) /\ resp.body = "href"

\* C26: requesting the Yandex download link makes at most two requests; the
\* second, without the path, is made only if a path was given and the first
\* response was 404 or carried no href; a non-2xx, non-404 status raises
\* DownloadError at once; and when no attempt yields an href the request ends
\* with DownloadError, the content being fetched only behind an href.
C26_AtMostOneRetry ==
  [][AttemptAnswered =>
       LET w == wk[NetRun]
           v == wk'[NetRun]
       IN /\ v.att <= 2
          /\ v.pc = "attempt" =>
               /\ w.att = 1 /\ v.att = 2 /\ w.with_path
               /\ w.resp.status = 404 \/ (IsOk(w.resp.status) /\ ~CarriesHref(w.resp))
          /\ (~IsOk(w.resp.status) /\ w.resp.status # 404) =>
               v.exc = "DownloadError" /\ v.pc \notin {"attempt", "href"}
          /\ v.pc = "href" => CarriesHref(w.resp)
          /\ v.pc \notin {"attempt", "href"} => v.exc = "DownloadError"]_vars

\* the thread holds the response to a request for file content and acts on it
ContentAnswered ==
  /\ wk[NetRun].pc \in {"fetch_status", "first_data", "second_data"}
  /\ wk'[NetRun] # wk[NetRun]
\* the thread writes the body of the response in hand to a temp file
BodyStaged ==
  /\ wk[NetRun].pc \in {"write_single", "file_data"}
  /\ wk'[NetRun] # wk[NetRun]

\* C28: for every fetcher, a response to a request for file content whose
\* status is outside 200-299 makes the fetch fail with DownloadError, and only
\* the body of a 2xx response is written to a temp file.
C28_OnlyOkStatusStaged ==
  [][/\ (ContentAnswered /\ ~IsOk(wk[NetRun].resp.status)) =>
          /\ wk'[NetRun].exc = "DownloadError"
          /\ wk'[NetRun].pc \in {"done", "file_except", "single_except"}
     /\ BodyStaged => IsOk(wk[NetRun].resp.status)]_vars

\* the step is one of the downloading thread, and it sends a request
ThreadStep == wk'[NetRun] # wk[NetRun]
RequestSent == ThreadStep /\ wk'[NetRun].last = "request"
\* the thread is at the start of a step of the recursive listing or of an
\* iteration over the folder's files
AtListingOrIteration ==
  \/ wk[NetRun].pc = "collect"
  \/ wk[NetRun].pc = "loop" /\ wk[NetRun].k <= wk[NetRun].nfiles

\* C29: every network request is immediately preceded by a poll of the
\* cancellation token that found it clear; every step of the recursive listing
\* and every iteration over the folder's files begins with a poll; a poll that
\* finds the token set raises SyncCancelled and sends nothing; and no request
\* is sent once a poll has found the token set.
C29_PollBeforeEveryRequest ==
  [][/\ RequestSent =>
          /\ wk[NetRun].last = "poll"
          /\ ~wk[NetRun].polled
          /\ ~wk[NetRun].seen_set
     /\ (ThreadStep /\ AtListingOrIteration) =>
          /\ wk'[NetRun].last = "poll"
          /\ wk'[NetRun].polled = cancel_events[NetRun]
     /\ (ThreadStep /\ wk'[NetRun].last = "poll" /\ wk'[NetRun].polled) =>
          /\ wk'[NetRun].exc = "SyncCancelled"
          /\ wk'[NetRun].pc \in {"done", "file_except"}]_vars
\* the cancellation arrives while a file of the folder is being downloaded,
\* after a request of that iteration was sent: the loop's handler catches it
C29_Witness ==
  /\ wk[NetRun].pc = "file_except"
  /\ wk[NetRun].exc = "SyncCancelled"
  /\ wk[NetRun].requested
  /\ wk[NetRun].seen_set

\* the name has an extension of VIDEO_EXTENSIONS: a non-empty stem, a dot, and
\* the extension (a name that is only a dot and the extension has none)
HasVideoExtension(name) ==
  \E i \in 2..Len(name) :
    name[i] = "." /\ SubSeq(name, i + 1, Len(name)) \in VIDEO_EXTENSIONS
VideoByClaim(entry) ==
  \/ StartsWith(entry.mime_type, <<"v", "i", "d", "e", "o", "/">>)
  \/ HasVideoExtension(entry.name)
\* the thread takes up the next file of the folder, the token being clear
IterationStarts ==
  /\ ThreadStep
  /\ wk[NetRun].pc = "loop" /\ wk[NetRun].k <= wk[NetRun].nfiles
  /\ ~cancel_events[NetRun]

\* C30: in a folder sync with the skip-video flag set, an entry whose MIME type
\* starts with "video/" or whose name has a video extension is marked skipped
\* in the step that takes it up, no download is begun for it and no request is
\* sent on its behalf; with both skip flags clear no entry is marked skipped
\* and the download of every entry taken up is begun.
C30_VideoSkippedNeverFetched ==
  [][LET w == wk[NetRun]
         v == wk'[NetRun]
     IN /\ (IterationStarts /\ w.skip_video /\ VideoByClaim(v.entry)) =>
             /\ v.results = Append(w.results, TRUE)
             /\ v.pc = "loop" /\ v.k = w.k + 1 /\ v.stack = w.stack
             /\ ~v.requested
        /\ (RequestSent /\ w.skip_video /\ w.stack # <<>>
              /\ w.stack[Len(w.stack)] = "try_file") => ~VideoByClaim(w.entry)
        /\ (~w.skip_video /\ ~w.skip_large) =>
             /\ \A i \in 1..Len(v.results) : ~v.results[i]
             /\ IterationStarts => v.pc = "yandex_resource"]_vars
\* with the flag set, a file named a.ts was taken up and marked skipped, and
\* the file before it was downloaded
C30_Witness ==
  /\ wk[NetRun].skip_video
  /\ wk[NetRun].entry = Entry(<<>>, <<"a", ".", "t", "s">>, FALSE)
  /\ wk[NetRun].results = <<FALSE, TRUE>>
  /\ wk[NetRun].pc = "done" /\ wk[NetRun].outcome = "folder"
\* with both flags clear, a large file with a video MIME type was downloaded
C30_WitnessClear ==
  /\ ~wk[NetRun].skip_video /\ ~wk[NetRun].skip_large
  /\ StartsWith(wk[NetRun].entry.mime_type, <<"v", "i", "d", "e", "o", "/">>)
  /\ wk[NetRun].pc = "loop" /\ wk[NetRun].results = <<FALSE>>

\* ---------------------------------------------------------------------------
\* _collect_yandex_files over a remote tree, one step per call and per item of
\* a listing. The tree is a chain of
\* directories: directory d (the root is 0) holds per_dir files and, down to
\* the level "levels", one sub-directory, listed before or after the files; in
\* a cyclic tree the deepest directory lists the root as its sub-directory.
\* The server answers a listing request with the first PageLimit items of the
\* directory (the request's "limit", 200 in the code, scaled down).
\* ---------------------------------------------------------------------------
TreeRun == FileRun
MaxLevels == 10
MaxPerDir == 3
PageLimit == 2

\* the listing thread: the tree, the call about to be made (dir, depth), the
\* calls in progress (todo: the items each still has to go through, innermost
\* first), the files collected so far and the listing requests sent
TreeWorker ==
  [levels |-> 0, per_dir |-> 0, dir_first |-> FALSE, cyclic |-> FALSE,
   dir |-> 0, depth |-> 0, todo |-> <<>>, calls |-> 0] @@ IdleWorker

FileItem(d, j) == [type |-> "file", path |-> <<d, j>>]
DirItem(d) == [type |-> "dir", path |-> <<d>>]
\* what the remote directory d of the tree t holds, in the server's order
RemoteItems(t, d) ==
  LET dirs == IF d < t.levels THEN <<DirItem(d + 1)>>
              ELSE IF t.cyclic THEN <<DirItem(0)>> ELSE <<>>
      fs == [j \in 1..t.per_dir |-> FileItem(d, j)]
  IN IF t.dir_first THEN dirs \o fs ELSE fs \o dirs
\* the metadata of directory d as the server returns it for limit=PageLimit
FetchDir(t, d) ==
  With(RemoteItems(t, d), LAMBDA all :
    [type |-> "dir",
     items |-> SubSeq(all, 1, IF Len(all) < PageLimit THEN Len(all) ELSE PageLimit)])

TreeStep(w) ==
  /\ wk' = [wk EXCEPT ![TreeRun] = w]
  /\ UNCHANGED <<notes, is_syncing, is_stopping, sync_cancel_event, ui_queue,
                 inflight_downloads, cancel_events, store, single, tmp, dl, runs>>

\* a call of _collect_yandex_files returns: its caller goes on with its items,
\* and the outermost call's return ends the listing
CollectReturn(w) ==
  [w EXCEPT !.pc = IF w.todo = <<>> THEN "collected" ELSE "items"]

\* _collect_yandex_files(public_key, path, depth) up to its loop: the depth
\* guard, then the listing request
CollectCall ==
  LET w == wk[TreeRun]
  IN /\ w.pc = "call"
     /\ TreeStep(IF DepthExceeded(w.depth) THEN CollectReturn(w)
                 ELSE [w EXCEPT !.pc = "items", !.calls = w.calls + 1,
                                !.todo = <<[items |-> FetchDir(w, w.dir).items,
                                            depth |-> w.depth]>> \o w.todo])

\* the loop over the items of a listing: a file is collected, a directory with
\* a path is listed one level deeper, and after the last item the call returns
CollectItems ==
  LET w == wk[TreeRun]
  IN /\ w.pc = "items"
     /\ \E top \in {Head(w.todo)} :
          IF top.items = <<>>
          THEN TreeStep(CollectReturn([w EXCEPT !.todo = Tail(w.todo)]))
          ELSE \E item \in {Head(top.items)} :
                 \E v \in {[w EXCEPT !.todo[1].items = Tail(top.items)]} :
                   TreeStep(IF item.type = "file"
                            THEN [v EXCEPT !.files = Append(w.files, item.path)]
                            ELSE IF item.type = "dir" /\ item.path # <<>>
                            THEN [v EXCEPT !.pc = "call", !.dir = item.path[1],
                                           !.depth = top.depth + 1]
                            ELSE v)

InitTree ==
  /\ \E levels \in 0..MaxLevels, per_dir \in 0..MaxPerDir, dir_first, cyclic \in BOOLEAN :
       wk = [r \in Runs |->
               IF r = TreeRun
               THEN [TreeWorker EXCEPT !.pc = "call", !.levels = levels,
                                       !.per_dir = per_dir, !.dir_first = dir_first,
                                       !.cyclic = cyclic]
               ELSE TreeWorker]
  /\ notes = [n \in Notes |-> NewNote("yandex")]
  /\ is_syncing = TRUE
  /\ is_stopping = FALSE
  /\ sync_cancel_event = TreeRun
  /\ ui_queue = <<>>
  /\ inflight_downloads = {}
  /\ cancel_events = [r \in Runs |-> FALSE]
  /\ store = [n \in Notes |-> EmptyFs]
  /\ single = [n \in Notes |-> None]
  /\ tmp = NoTemp
  /\ dl = <<>>
  /\ runs = 1

NextTree ==
  \/ CollectCall
  \/ CollectItems

SpecTree == InitTree /\ [][NextTree]_vars

\* every file of the tree t
RemoteFiles(t) == { <<d, j>> : d \in 0..t.levels, j \in 1..t.per_dir }
\* directory d shows its sub-directory within the first PageLimit items
ShowsSubdir(t) == t.dir_first \/ t.per_dir + 1 <= PageLimit
\* the files of t that the listings show: file j of directory d is among the
\* first PageLimit items of d, and every directory above d shows its
\* sub-directory
ShownFiles(t) ==
  { f \in RemoteFiles(t) :
      /\ f[2] + (IF t.dir_first /\ (f[1] < t.levels \/ t.cyclic) THEN 1 ELSE 0)
           <= PageLimit
      /\ f[1] > 0 => ShowsSubdir(t) }
ListedOnce(files, expected) ==
  /\ { files[i] : i \in 1..Len(files) } = expected
  /\ Len(files) = Cardinality(expected)
Collected == wk[TreeRun].pc = "collected"
WithinDepth == ~wk[TreeRun].cyclic /\ wk[TreeRun].levels <= DepthLimit

\* C27 as stated: the listing ends for every tree, cyclic ones included, since
\* it never sends more than DepthLimit + 1 listing requests along the chain nor
\* nests its calls deeper; and for an acyclic
\* tree nested at most DepthLimit levels it returns every file of the tree
\* exactly once.
C27_EveryFileOnce ==
  /\ wk[TreeRun].calls <= DepthLimit + 1
  /\ Len(wk[TreeRun].todo) <= DepthLimit + 1
  /\ (Collected /\ WithinDepth) =>
       ListedOnce(wk[TreeRun].files, RemoteFiles(wk[TreeRun]))

\* C27 as the code has it: the listing ends for every tree, since it never
\* sends more than DepthLimit + 1 listing requests along the chain nor nests
\* its calls deeper; and for an acyclic tree
\* nested at most DepthLimit levels it returns, exactly once, every file that
\* the listings show, which is a file among the first PageLimit items of its
\* directory, below directories that are among the first PageLimit items too.
C27_EveryShownFileOnce ==
  /\ wk[TreeRun].calls <= DepthLimit + 1
  /\ Len(wk[TreeRun].todo) <= DepthLimit + 1
  /\ (Collected /\ WithinDepth) =>
       ListedOnce(wk[TreeRun].files, ShownFiles(wk[TreeRun]))
\* a tree of DepthLimit levels with one file in each directory: all nine files
\* are listed, the deepest included
C27_Witness ==
  /\ Collected /\ WithinDepth
  /\ wk[TreeRun].levels = DepthLimit /\ wk[TreeRun].per_dir = 1
  /\ Len(wk[TreeRun].files) = DepthLimit + 1
  /\ wk[TreeRun].files[DepthLimit + 1] = <<DepthLimit, 1>>
\* a cyclic tree: the listing ends after DepthLimit + 1 requests, the same
\* file being listed once per round
C27_WitnessCycle ==
  /\ Collected /\ wk[TreeRun].cyclic
  /\ wk[TreeRun].levels = 0 /\ wk[TreeRun].per_dir = 1
  /\ wk[TreeRun].calls = DepthLimit + 1
  /\ Len(wk[TreeRun].files) = DepthLimit + 1

\* ---- the write-back of the records ----
\* the GUI thread consumes the event at the head of the queue
Consumes(type) ==
  /\ ui_queue # <<>> /\ Head(ui_queue).type = type
  /\ ui_queue' = Tail(ui_queue)
\* no event of a target follows the target's "note_synced" event of the same run
NothingAfterSynced(queue) ==
  \A i \in 1..Len(queue) : \A j \in (i + 1)..Len(queue) :
    queue[i].type = "note_synced" =>
      ~(queue[j].note = queue[i].note /\ queue[j].run = queue[i].run)

HttpsStart == Https \o <<":", "/", "/">>
RawUrls ==
  { <<>>, <<" ">>,
    Prefix \o <<"k">>, <<" ">> \o Prefix \o <<"k", "\n">>, Prefix \o <<"k", " ", "k">>,
    <<"Y">> \o Tail(Prefix) \o <<"k">>,
    <<"h", "/", "f">>, HttpsStart \o <<"h", "/", "f">>, HttpsStart \o <<"h", "2", "/", "f">>,
    <<"f", "t", "p", ":", "/", "/", "h">>, HttpsStart }

\* The target's url field: the two addresses of Init by the names the sync
\* actions know them by, any other address by its text.
UrlField(value) ==
  IF value = Prefix \o <<"k">> THEN "yandex"
  ELSE IF value = HttpsStart \o <<"h", "/", "f">> THEN "http"
  ELSE Str(value)

\* _normalize_source_url(raw): None, or the address to store.
NormalizeSourceUrl(raw) ==
  With(Strip(raw, Whitespace), LAMBDA value :
    IF value = <<>> THEN None
    ELSE IF StartsWith(Lower(value), Prefix) THEN UrlField(Replace(value, " ", "+"))
    ELSE With(UrlParse(IF Find(value, <<":", "/", "/">>) = 0 THEN HttpsStart \o value
                       ELSE value),
              LAMBDA parsed :
                IF parsed.scheme \notin {Http, Https} THEN None
                ELSE IF parsed.netloc = <<>> THEN None
                ELSE UrlField(GetUrl(parsed))))

\* The titles typed into the dialog, and title.strip() of them.
Titles == {<<"t", "1">>, <<" ", "t", "2">>}
TitleField(title) == Str(Strip(title, Whitespace))

\* What the dialog's texts come to, computed once.
NormalizedUrls == [raw \in RawUrls |-> NormalizeSourceUrl(raw)]
TitleFields == [title \in Titles |-> TitleField(title)]

EditFrame ==
  UNCHANGED <<is_syncing, is_stopping, sync_cancel_event, ui_queue, inflight_downloads,
              cancel_events, tmp, wk, dl, runs>>

\* The edit that resets the record and keeps the local copy of the old address.
EditNoteKeepingMirror(n, title, raw_url) ==
  /\ ~is_syncing
  /\ notes[n] # Absent
  /\ ~notes[n].is_group
  /\ NormalizedUrls[raw_url] # None
  /\ \E normalized \in {NormalizedUrls[raw_url]} :
       notes' = [notes EXCEPT ![n] =
                   [@ EXCEPT !.title = TitleFields[title], !.url = normalized,
                             !.status = Status("Edited. Sync recommended"),
                             !.last_error = None,
                             !.sha256 = IF @ = normalized THEN @ ELSE None,
                             !.source_type = IF notes[n].url # normalized THEN None ELSE @,
                             !.folder_files = IF notes[n].url # normalized THEN <<>> ELSE @]]
  /\ UNCHANGED <<single, store>>
  /\ EditFrame

\* _edit_note of the selected target n with the dialog accepted (the button is
\* enabled when no sync runs); a url that does not normalise is refused.
EditNote(n, title, raw_url) ==
  /\ ~is_syncing
  /\ notes[n] # Absent
  /\ \E normalized \in {NormalizedUrls[raw_url]} :
       IF notes[n].is_group
       THEN /\ notes' = [notes EXCEPT ![n] =
                           [@ EXCEPT !.title = TitleFields[title],
                                     !.status = Status("Folder"), !.last_error = None]]
            /\ UNCHANGED <<single, store>>
       ELSE IF normalized = None
       THEN UNCHANGED <<notes, single, store>>
       ELSE \E url_changed \in {notes[n].url # normalized} :
              /\ notes' = [notes EXCEPT ![n] =
                   [@ EXCEPT !.title = TitleFields[title], !.url = normalized,
                             !.status = Status("Edited. Sync recommended"),
                             !.last_error = None,
                             !.sha256 = IF url_changed THEN None ELSE @,
                             !.source_type = IF url_changed THEN None ELSE @,
                             !.folder_files = IF url_changed THEN <<>> ELSE @]]
              /\ single' = [single EXCEPT ![n] = IF url_changed THEN None ELSE @]
              /\ store' = [store EXCEPT ![n] = IF url_changed THEN Rmtree(@) ELSE @]
  /\ EditFrame

\* The records of this section carry the title the dialog edits.
TitledNote(url) == [title |-> "t0"] @@ NewNote(url)

\* What earlier syncs left of the folder target: a and a/b are listed, and of
\* each either the file is on disk or its download had failed.
EditFolderBases ==
  LET listing == CHOOSE l \in Listings : Len(l) = 2 /\ l[1].path # l[2].path
      temp(k) == <<1, "n1", k>>
      result(have, k) ==
        IF k \in have THEN DownloadedFolderFile(listing[k], temp(k), FALSE, None)
        ELSE DownloadedFolderFile(listing[k], None, FALSE, MsgHttp)
      synced(have) ==
        ApplyFolderSync(TitledNote("yandex"), EmptyFs, None,
                        [t \in TempIds |-> IF t \in {temp(1), temp(2)} THEN "c1" ELSE None],
                        <<result(have, 1), result(have, 2)>>)
  IN { res \in { synced(have) : have \in SUBSET {1, 2} } : res.err = None }

\* What earlier syncs left of the single-file target: nothing, or the file.
EditFileBases ==
  {[note |-> TitledNote("http"), single |-> None]}
  \cup { [note |-> [TitledNote("http") EXCEPT !.sha256 = Sha256(c),
                                               !.source_type = "file",
                                               !.status = Status("Updated")],
          single |-> c] : c \in Contents }

InitEdit ==
  /\ \E folder \in EditFolderBases, file \in EditFileBases :
       /\ notes = [n \in Notes |->
                     IF n = "n1" THEN [folder.note EXCEPT !.last_error = None]
                     ELSE file.note]
       /\ store = [n \in Notes |-> IF n = "n1" THEN folder.fs ELSE EmptyFs]
       /\ single = [n \in Notes |-> IF n = "n1" THEN None ELSE file.single]
  /\ is_syncing = FALSE
  /\ is_stopping = FALSE
  /\ sync_cancel_event = 0
  /\ ui_queue = <<>>
  /\ inflight_downloads = {}
  /\ cancel_events = [r \in Runs |-> FALSE]
  /\ tmp = NoTemp
  /\ wk = [r \in Runs |-> IdleWorker]
  /\ dl = <<>>
  /\ runs = 0

NextEdit ==
  \E n \in Notes, title \in Titles, raw_url \in RawUrls : EditNote(n, title, raw_url)

SpecEdit == InitEdit /\ [][NextEdit]_vars

\* C32: an accepted edit of a target that changes its url leaves sha256 and
\* source_type unset, the synced files empty, and neither the single-file path
\* nor the source directory on disk; an accepted edit that leaves the url as it
\* was leaves sha256, source_type, the synced files, the single-file path and
\* the source directory as they were.  No edit touches another target.
C32_EditInvalidatesOnUrlChange ==
  [][\A n \in Notes, title \in Titles, raw_url \in RawUrls :
       (EditNote(n, title, raw_url) /\ NormalizedUrls[raw_url] # None) =>
         /\ notes'[n].title = TitleFields[title]
         /\ IF notes'[n].url # notes[n].url
            THEN /\ notes'[n].sha256 = None
                 /\ notes'[n].source_type = None
                 /\ notes'[n].folder_files = <<>>
                 /\ single'[n] = None
                 /\ \A p \in AllPaths : ~FsExists(store'[n], p)
            ELSE /\ notes'[n].sha256 = notes[n].sha256
                 /\ notes'[n].source_type = notes[n].source_type
                 /\ notes'[n].folder_files = notes[n].folder_files
                 /\ single'[n] = single[n]
                 /\ store'[n] = store[n]
         /\ \A m \in Notes \ {n} :
              notes'[m] = notes[m] /\ single'[m] = single[m] /\ store'[m] = store[m]]_vars

\* The folder target, which every earlier state has on disk, was given another
\* address and lost its local copy; the single-file target was given another
\* title and kept its file.
C32_Witness ==
  /\ notes["n1"].url = "http" /\ notes["n1"].folder_files = <<>>
  /\ ~FsExists(store["n1"], <<>>)
  /\ notes["n2"].url = "http" /\ notes["n2"].title = "t2"
  /\ notes["n2"].sha256 = Sha256("c1") /\ single["n2"] = "c1"
  /\ dl = <<>>

\* C33: after a folder reconciliation that returned without an error, no two of
\* the target's synced files have the same local_relative_path, and every
\* synced file that is on disk has the sha256 of the bytes on disk.
C33_SyncedFilesMatchDisk ==
  LET w == wk[RecRun]
      items == w.copy.folder_files
  IN (w.pc = "returned" /\ w.copy.last_error = None) =>
       /\ \A i, j \in 1..Len(items) :
            items[i].local_relative_path = items[j].local_relative_path => i = j
       /\ \A i \in 1..Len(items) :
            IsFile(store[RecNote], items[i].local_relative_path) =>
              items[i].sha256 = Sha256(store[RecNote][items[i].local_relative_path])

\* C34: when sync_single_note has returned to the worker of run r (the worker is
\* between two targets or past the last one), no temp file that run r staged is
\* in the temp directory.
C34_NoTempLeftOnReturn ==
  \A r \in Runs :
    wk[r].pc \notin SyncPcs =>
      \A n \in Notes, k \in 0..MaxFiles : tmp[<<r, n, k>>] = None

\* The step of worker r is the return of sync_single_note from its download
\* phase: download_source raised, or the token was found set.
DownloadPhaseEnded(r) ==
  /\ Returned(r)
  /\ ~AtReconcile(r)
  /\ wk'[r].copy.status.kind \in {"Error", "Stopped"}

C35_WitnessError ==
  /\ runs = 2
  /\ ui_queue = <<>>
  /\ notes["n2"].status.kind = "Error" /\ notes["n2"].sha256 # None
  /\ single["n2"] # None

\* The updated_count and the error_count of the SyncResult that the return of
\* sync_single_note to worker r carries.
EngineUpdatedCount(r) ==
  IF AtReconcile(r)
  THEN (IF Reconciled(r).err = None THEN Reconciled(r).updated ELSE 0)
  ELSE IF wk'[r].copy.status.kind = "Updated" THEN 1 ELSE 0

EngineErrorCount(r) == IF wk'[r].copy.status.kind = "Error" THEN 1 ELSE 0

\* C36: each return of sync_single_note adds the SyncResult's updated_count to
\* the run's updated count and its error_count to the run's error count, no
\* other step changes the two counts, and the "sync_finished" event carries
\* them: the event's counts are the sums of the engine's counts.
C36_RunCountsAreEngineSums ==
  [][\A r \in Runs :
       /\ Returned(r) =>
            /\ wk'[r].updated_count = wk[r].updated_count + EngineUpdatedCount(r)
            /\ wk'[r].error_count = wk[r].error_count + EngineErrorCount(r)
       /\ (Moves(r) /\ ~Returned(r) /\ wk[r].pc \notin {"idle", "finish"}) =>
            /\ wk'[r].updated_count = wk[r].updated_count
            /\ wk'[r].error_count = wk[r].error_count
       /\ (wk[r].pc = "finish" /\ Moves(r)) =>
            /\ Emitted # <<>>
            /\ Emitted[1].type = "sync_finished" /\ Emitted[1].run = r
            /\ Emitted[1].a = wk[r].updated_count
            /\ Emitted[1].b = wk[r].error_count]_vars

\* ------------------------------ a sync run and "download missing file" workers
\* The state InitDl with the run that left it counted and the other entry of the
\* list a group: the next run syncs the folder target alone, while the files
\* of its source tree can be opened.
InitBoth ==
  LET failed(e) == DownloadedFolderFile(e, None, FALSE, MsgHttp)
      listing == CHOOSE l \in Listings : Len(l) = 2 /\ l[1].path # l[2].path
      res == ApplyFolderSync(NewNote("yandex"), EmptyFs, None, NoTemp,
                             <<failed(listing[1]), failed(listing[2])>>)
  IN /\ notes = [n \in Notes |->
                   IF n = "n1" THEN [res.note EXCEPT !.last_error = None]
                   ELSE [NewNote(None) EXCEPT !.is_group = TRUE,
                                              !.status = Status("Folder")]]
     /\ is_syncing = FALSE
     /\ is_stopping = FALSE
     /\ sync_cancel_event = 0
     /\ ui_queue = <<>>
     /\ inflight_downloads = {}
     /\ cancel_events = [r \in Runs |-> FALSE]
     /\ store = [n \in Notes |-> IF n = "n1" THEN res.fs ELSE EmptyFs]
     /\ single = [n \in Notes |-> None]
     /\ tmp = NoTemp
     /\ wk = [r \in Runs |-> IF r < MaxRuns THEN [IdleWorker EXCEPT !.pc = "done"]
                             ELSE IdleWorker]
     /\ dl = <<>>
     /\ runs = MaxRuns - 1

\* A double click on a file of the source tree while the run is under way; one
\* such request is followed.
OpenDuringRun == is_syncing /\ dl = <<>> /\ OpenOrDownloadSourceFile

NextBoth ==
  \/ SyncAll
  \/ ProcessUiQueue
  \/ \E r \in Runs : Worker(r)
  \/ OpenDuringRun
  \/ \E d \in DOMAIN dl : MissingDownloadWorker(d)

SpecBoth == InitBoth /\ [][NextBoth]_vars

\* The "download missing file" worker d has written its file and its
\* "missing_download_ok" event has not been taken from the queue yet.
WroteFile(d) ==
  /\ dl[d].pc \in {"finally", "ended"}
  /\ \E i \in 1..Len(ui_queue) :
       /\ ui_queue[i].type = "missing_download_ok"
       /\ ui_queue[i].note = dl[d].note
       /\ ui_queue[i].a = dl[d].file

\* C37: while run r syncs a target, no "download missing file" worker of that
\* target is at its write to the source directory when the run is at its
\* reconciliation, and the reconciliation leaves a file that such a worker has
\* written as the worker wrote it.
C37_StoreHasOneWriter ==
  [][\A r \in Runs, d \in DOMAIN dl :
       (wk[r].pc \in SyncPcs /\ dl[d].note = Target(r)) =>
         /\ ~(AtReconcile(r) /\ dl[d].pc = "apply")
         /\ (AtReconcile(r) /\ Moves(r) /\ WroteFile(d)) =>
              store'[dl[d].note][dl[d].file] = store[dl[d].note][dl[d].file]]_vars

\* The reconciliation of the run alone never withdraws what a finished download
\* has written.
C37_WrittenFileKept ==
  [][\A r \in Runs, d \in DOMAIN dl :
       (wk[r].pc \in SyncPcs /\ dl[d].note = Target(r)
          /\ AtReconcile(r) /\ Moves(r) /\ WroteFile(d)) =>
         store'[dl[d].note][dl[d].file] = store[dl[d].note][dl[d].file]]_vars

\* The events of the "download missing file" worker d in the queue.
KeyOf(d) == Key(dl[d].note, dl[d].file)
IsResultOf(ev, d) ==
  /\ ev.type \in {"missing_download_ok", "missing_download_err"}
  /\ ev.note = dl[d].note /\ ev.a = dl[d].file
IsDoneOf(ev, d) == ev.type = "missing_download_done" /\ ev.payload = KeyOf(d)
Count(S) == Cardinality(S)

\* C38 (the key): a (target, file) pair is in flight exactly while one worker
\* of the pair has not ended or the one "missing_download_done" event of an
\* ended worker of the pair is still in the queue; otherwise it is not in
\* flight, and a request for the pair is accepted.
C38_InFlightUntilDoneDrained ==
  \A n \in Notes, file \in AllPaths :
    Count({ d \in DOMAIN dl : dl[d].note = n /\ dl[d].file = file /\ dl[d].pc # "ended" })
    + Count({ i \in 1..Len(ui_queue) :
                ui_queue[i].type = "missing_download_done"
                /\ ui_queue[i].payload = Key(n, file) })
    = IF Key(n, file) \in inflight_downloads THEN 1 ELSE 0

\* C38: a started worker goes through fetch, apply (on a successful download),
\* finally, ended; the step that takes it to "finally" puts its one result
\* event, ok or err, the step that ends it puts its one "done" event, and no
\* other step of it puts an event; taking the "done" event from the queue
\* removes the pair's key from the in-flight set.
C38_OneResultThenDone ==
  [][/\ \A d \in DOMAIN dl :
          dl'[d] # dl[d] =>
            /\ <<dl[d].pc, dl'[d].pc>> \in
                 {<<"fetch", "apply">>, <<"fetch", "finally">>, <<"apply", "finally">>,
                  <<"finally", "ended">>}
            /\ dl'[d].pc = "apply" => ui_queue' = ui_queue
            /\ dl'[d].pc = "finally" => (Emitted # <<>> /\ IsResultOf(Emitted[1], d))
            /\ dl'[d].pc = "ended" => (Emitted # <<>> /\ IsDoneOf(Emitted[1], d))
     /\ Consumes("missing_download_done") =>
          inflight_downloads' = inflight_downloads \ {Head(ui_queue).payload}
     /\ inflight_downloads' # inflight_downloads =>
          \/ Consumes("missing_download_done")
          \/ Len(dl') = Len(dl) + 1 /\ dl'[Len(dl')].pc = "fetch"
               /\ \E key \in {Key(dl'[Len(dl')].note, dl'[Len(dl')].file)} :
                    /\ key \notin inflight_downloads
                    /\ inflight_downloads' = inflight_downloads \cup {key}]_vars

\* C38: every started "download missing file" worker puts exactly one result
\* event and then exactly one "done" event, and its pair is in flight until
\* that "done" event is taken from the queue and not after.
C38_OneResultOneDone == []C38_InFlightUntilDoneDrained /\ C38_OneResultThenDone

\* A download of a file failed, its events were drained, and a second request
\* for the same file of the same target was accepted.
C38_Witness ==
  /\ Len(dl) >= 2
  /\ dl[1].note = dl[2].note /\ dl[1].file = dl[2].file
  /\ dl[1].pc = "ended" /\ dl[2].pc = "apply"
  /\ inflight_downloads = {Key(dl[2].note, dl[2].file)}

\* ------------------------------------------------------- the runs, with progress
\* The program with one target in its list (the other entry is a group), at
\* the moment the first run has been started and its stop requested; every
\* request is answered in the end (a worker thread that can take a step takes
\* one) and the queue is drained (the timer of _process_ui_queue keeps firing).
InitLive ==
  /\ notes = [n \in Notes |->
                IF n = "n1" THEN NewNote("yandex")
                ELSE [NewNote(None) EXCEPT !.is_group = TRUE, !.status = Status("Folder")]]
  /\ is_syncing = TRUE
  /\ is_stopping = TRUE
  /\ sync_cancel_event = 1
  /\ ui_queue = <<>>
  /\ inflight_downloads = {}
  /\ cancel_events = [r \in Runs |-> r = 1]
  /\ store = [n \in Notes |-> EmptyFs]
  /\ single = [n \in Notes |-> None]
  /\ tmp = NoTemp
  /\ wk = [r \in Runs |->
             IF r = 1 THEN [IdleWorker EXCEPT !.pc = "loop", !.ids = <<"n1">>]
             ELSE IdleWorker]
  /\ dl = <<>>
  /\ runs = 1

\* Every step of a worker changes its position (pc, idx or k), and every
\* ProcessUiQueue step shortens the queue.
Position(r) == <<wk[r].pc, wk[r].idx, wk[r].k>>

SpecLive ==
  /\ InitLive
  /\ [][Next]_vars
  /\ WF_Len(ui_queue)(ProcessUiQueue)
  /\ \A r \in Runs : WF_Position(r)(Worker(r))

Idle == ~is_syncing /\ ~is_stopping /\ sync_cancel_event = 0

\* The step starts run r.
Starts(r) == runs = r - 1 /\ runs' = r

\* C39: every started run ends with its worker past the "sync_finished" event
\* and the orchestrator idle again (is_syncing and is_stopping false, no cancel
\* token); a run starts from the idle state with a token of its own, which is
\* not set; a stop request sets the token of the run under way and no other;
\* and a set token is never cleared while its run's worker is at work.
C39_RunsEndAndTokensAreFresh ==
  /\ \A r \in Runs : (wk[r].pc \notin {"idle", "done"}) ~> (wk[r].pc = "done")
  /\ is_syncing ~> Idle
  /\ [][\A r \in Runs :
          /\ Starts(r) =>
               /\ Idle
               /\ is_syncing' /\ ~is_stopping' /\ sync_cancel_event' = r
               /\ ~cancel_events'[r]
               /\ wk'[r].pc = "loop"
          /\ (cancel_events'[r] /\ ~cancel_events[r]) =>
               /\ is_syncing /\ sync_cancel_event = r
               /\ \A q \in Runs \ {r} : cancel_events'[q] = cancel_events[q]
          /\ (cancel_events[r] /\ ~cancel_events'[r]) => wk[r].pc = "done"
          /\ (wk[r].pc = "finish" /\ Moves(r)) =>
               /\ Emitted # <<>>
               /\ Emitted[1].type = "sync_finished" /\ Emitted[1].run = r
     ]_<<runs, cancel_events, [r \in Runs |-> Position(r)]>>

\* The first run was stopped and has ended; the second run has synced the
\* target and has ended too.
C39_Witness ==
  /\ runs = 2
  /\ wk[1].pc = "done" /\ wk[2].pc = "done"
  /\ Idle /\ ui_queue = <<>>
  /\ notes["n1"].status.kind = "Folder synced" /\ notes["n1"].folder_files # <<>>

\* C40: a folder reconciliation returns without an error whatever the store
\* held before: every staged file of the listing is then on disk at its local
\* path, and no file that was synced before and is no longer listed is left.
C40_ReconcileAlwaysSucceeds ==
  LET w == wk[RecRun]
      listed == PathsOf(w.results)
  IN w.pc = "returned" =>
       /\ w.copy.last_error = None
       /\ w.copy.status.kind \in {"Folder synced", "Folder no changes"}
       /\ \A i \in 1..Len(w.results) :
            w.results[i].temp_path # NoTempPath =>
              IsFile(store[RecNote], w.results[i].local_relative_path)
       /\ \A i \in 1..Len(notes[RecNote].folder_files) :
            notes[RecNote].folder_files[i].local_relative_path \notin listed =>
              ~IsFile(store[RecNote], notes[RecNote].folder_files[i].local_relative_path)
====
